---- MODULE Spec2Model ----
(***************************************************************************)
(* Model of the core of gemini-code-review-action:                         *)
(*   - AIService (src/src/services/ai-service.ts): rate gate, retry with   *)
(*     backoff and model deranking around the external generateContent     *)
(*     call.                                                               *)
(* Strings of the program that are inspected character by character are    *)
(* sequences of one-character strings; model names are plain strings.      *)
(***************************************************************************)
EXTENDS Integers, Sequences, FiniteSets, TLC

(***************************************************************************)
(* Bounds of the model.                                                    *)
(***************************************************************************)
\* number of logical requests (reviewSingle / reviewBatch calls) of one run
MaxRequests == 2
\* number of entries of a reviews payload returned by the model
MaxReviews == 2
\* value of Date.now() when the service is constructed (ms); far above any
\* inter-request interval, like a real epoch timestamp
StartTime == 100000
\* length of the lineContent of a suggestion
MaxCandLen == 2
\* number of hunk lines of the files handed to a resolver
MaxTotalLines == 2
\* number of changed lines (hunk body lines) of a diff given to the parser
MaxBodyLines == 3

VARIABLES
  \* ---- AIService fields -------------------------------------------------
  currentModelName,   \* this.currentModelName
  rateLimitDelay,     \* this.rateLimitDelay (ms)
  lastRequestTime,    \* this.lastRequestTime (ms)
  \* ---- one getAiResponse invocation chain -------------------------------
  pc,                 \* "idle" | "gate" | "inflight" | "done"
  retryCount,         \* the retryCount argument of the running invocation
  result,             \* what the outermost getAiResponse gave to its caller
  lastStatus,         \* status of the last caught error (0: none / no status)
  response,           \* what the last generateContent call resolved with
  \* ---- environment and history ------------------------------------------
  now,                \* Date.now()
  reqNo,              \* number of logical requests started so far
  calls,              \* log of generateContent calls
  backoffs            \* backoff delays slept during the current request

VARIABLES
  \* ---- position resolution (helpers.ts, batch-processor.ts) --------------
  rBatch,             \* the files (path, hunks) the suggestions are about
  aiResponses,        \* the suggestions returned by the model
  rForm,              \* resolver form applied: "none" | "single" | "multi" | "batch"
  comments            \* the comments the resolver returned

invokerVars == <<currentModelName, rateLimitDelay, lastRequestTime, pc,
                 retryCount, result, lastStatus, response, now, reqNo, calls, backoffs>>

resolverVars == <<rBatch, aiResponses, rForm, comments>>

VARIABLES
  \* ---- parseDiff (services/github/service.ts) ---------------------------
  input,              \* input.split("\n"): the lines still to parse and parsed
  lineNo,             \* index of the next line of the for loop
  files,              \* files
  currentChunk,       \* currentChunk: <<file index, chunk index>>, <<0, 0>> null
  deletedLineCounter, \* deletedLineCounter
  addedLineCounter,   \* addedLineCounter
  currentFileChanges  \* currentFileChanges: remaining old/new line budgets

parserVars == <<input, lineNo, files, currentChunk, deletedLineCounter,
                addedLineCounter, currentFileChanges>>

VARIABLES
  \* ---- BatchProcessor (services/batch-processor.ts) ----------------------
  maxBatchSize,       \* this.maxBatchSize
  maxTokensPerBatch,  \* this.maxTokensPerBatch
  batchFiles,         \* createBatches: the parameter files
  fileNo,             \* index of the next file of the for loop
  batches,            \* batches
  currentBatch,       \* currentBatch
  currentTokenCount,  \* currentTokenCount
  batchPc             \* "idle", "loop" (inside createBatches) or "returned"

batchVars == <<maxBatchSize, maxTokensPerBatch, batchFiles, fileNo, batches,
               currentBatch, currentTokenCount, batchPc>>

VARIABLES
  \* ---- CodeAnalysisService (services/code-analysis-service.ts) -----------
  analysisFiles,      \* analyzeCodeChanges: the parameter files
  analysisPc,         \* where analyzeCodeChanges is (see the actions)
  batchIndex,         \* analyzeBatchMode: i + 1, the batch of the for loop
  individualFiles,    \* processFilesIndividually: the parameter files
  individualIndex,    \* processFilesIndividually: i + 1
  allComments,        \* the comments collected so far, in output order
  callsInFlight,      \* external model calls sent and not yet settled
  trace               \* what was done, in order: batch calls and file runs

analysisVars == <<analysisFiles, analysisPc, batchIndex, individualFiles,
                  individualIndex, allComments, callsInFlight, trace>>

vars == <<invokerVars, resolverVars, parserVars, batchVars, analysisVars>>

(***************************************************************************)
(* AIService: the tier table                                               *)
(***************************************************************************)
\* this.rpmLimits, in key insertion order
rpmLimits ==
  << [name |-> "gemini-2.5-pro",        rpm |-> 5],
     [name |-> "gemini-2.5-flash",      rpm |-> 10],
     [name |-> "gemini-2.5-flash-lite", rpm |-> 15],
     [name |-> "gemini-2.0-flash",      rpm |-> 15],
     [name |-> "gemini-2.0-flash-lite", rpm |-> 30] >>

\* Object.keys(this.rpmLimits)
RpmKeys == [i \in 1..Len(rpmLimits) |-> rpmLimits[i].name]

HasRpm(name) == \E i \in 1..Len(rpmLimits) : rpmLimits[i].name = name

\* this.rpmLimits[name] || 5
RpmOf(name) ==
  IF HasRpm(name)
    THEN (CHOOSE r \in {rpmLimits[i] : i \in 1..Len(rpmLimits)} : r.name = name).rpm
    ELSE 5

\* the comparator of the constructor's sort: (a, b) => rpm[b] - rpm[a]
CompareModels(a, b) == RpmOf(b) - RpmOf(a)

\* stable insertion of x into a sequence already sorted by CompareModels
RECURSIVE InsertSorted(_, _)
InsertSorted(x, s) ==
  IF s = <<>> THEN <<x>>
  ELSE IF CompareModels(Head(s), x) > 0
         THEN <<x>> \o s
         ELSE <<Head(s)>> \o InsertSorted(x, Tail(s))

\* Array.prototype.sort (stable) with CompareModels
RECURSIVE SortModels(_)
SortModels(s) ==
  IF s = <<>> THEN <<>>
  ELSE InsertSorted(s[Len(s)], SortModels(SubSeq(s, 1, Len(s) - 1)))

\* this.modelHierarchy
modelHierarchy == SortModels(RpmKeys)

\* Array.prototype.indexOf, 0-based, -1 when absent
IndexOf(s, x) ==
  IF \E i \in 1..Len(s) : s[i] = x
    THEN (CHOOSE i \in 1..Len(s) : s[i] = x /\ \A j \in 1..(i - 1) : s[j] # x) - 1
    ELSE -1

\* the null returned by getNextLowerModel
NullModel == "null"

GetNextLowerModelWrapping(cur) ==
  LET currentIndex == IndexOf(modelHierarchy, cur) IN
    IF currentIndex = -1 THEN NullModel
    ELSE modelHierarchy[((currentIndex + 1) % Len(modelHierarchy)) + 1]

\* getNextLowerModel()
GetNextLowerModel(cur) ==
  LET currentIndex == IndexOf(modelHierarchy, cur) IN
    IF currentIndex = -1 \/ currentIndex = Len(modelHierarchy) - 1
      THEN NullModel
      ELSE modelHierarchy[currentIndex + 2]

\* an interval computed from a second instead of a minute
UpdateRateLimitDelayPerSecond(name) ==
  LET rpm == RpmOf(name) IN (1000 + rpm - 1) \div rpm

\* updateRateLimitDelay(): Math.ceil(60000 / rpm)
UpdateRateLimitDelay(name) ==
  LET rpm == RpmOf(name) IN (60000 + rpm - 1) \div rpm

\* the model names the constructor may be given (argument, GEMINI_MODEL or
\* the default); "custom-model" stands for a name outside the tier table
ConfigurableModels == {RpmKeys[i] : i \in 1..Len(RpmKeys)} \cup {"custom-model"}

(***************************************************************************)
(* AIService.getAiResponse                                                 *)
(***************************************************************************)
\* const maxRetries = 3
maxRetries == 3

Min(a, b) == IF a < b THEN a ELSE b

RECURSIVE Pow2(_)
Pow2(n) == IF n = 0 THEN 1 ELSE 2 * Pow2(n - 1)

\* a delay that grows by a second per retry
BackoffDelayLinear(n) == Min(1000 * (n + 1), 30000)

\* Math.min(1000 * Math.pow(2, retryCount), 30000)
BackoffDelay(n) == Min(1000 * Pow2(n), 30000)

\* error statuses the external call may fail with; NoStatus is an error
\* object without a status property (network error, SyntaxError, TypeError)
NoStatus == 0
ErrorStatuses == {NoStatus, 400, 429, 500, 503}
NoError == -1

\* time the external call takes before it returns or fails (ms)
CallLatencies == {0, 1500}

\* entries of a parsed reviews array; "" is a missing or empty field
ReviewEntries == [lineContent : {"", "+a"}, reviewComment : {"", "c"}]

RECURSIVE SeqsUpTo(_, _)
SeqsUpTo(S, n) ==
  IF n = 0 THEN {<<>>}
  ELSE LET shorter == SeqsUpTo(S, n - 1) IN
         shorter \cup {Append(s, x) : s \in {t \in shorter : Len(t) = n - 1}, x \in S}

\* what generateContent hands back when it does not fail:
\*   no_text    result.text is undefined or blank
\*   bad_json   text that JSON.parse rejects
\*   no_reviews JSON without a reviews array
\*   reviews    JSON with a reviews array
Responses ==
  {[kind |-> k, reviews |-> <<>>] : k \in {"no_text", "bad_json", "no_reviews"}}
    \cup {[kind |-> "reviews", reviews |-> r] : r \in SeqsUpTo(ReviewEntries, MaxReviews)}

\* a filter that only looks at lineContent
FilterReviewsByLineOnly(reviews) ==
  SelectSeq(reviews, LAMBDA review : review.lineContent # "")

\* data.reviews.filter((review) => review.lineContent && review.reviewComment)
FilterReviews(reviews) ==
  SelectSeq(reviews, LAMBDA review : review.lineContent # "" /\ review.reviewComment # "")

\* no call has resolved
NoResponse == [kind |-> "none", reviews |-> <<>>]

Pending == [kind |-> "pending", reviews |-> <<>>]
Thrown == [kind |-> "thrown", reviews |-> <<>>]
ListResult(reviews) == [kind |-> "list", reviews |-> reviews]

CatchDecisionRethrowing(status, retry, cur) ==
  IF status = 429
    THEN IF retry < maxRetries
           THEN IF retry = 0 /\ GetNextLowerModel(cur) # NullModel
                  THEN "derank"
                  ELSE "backoff"
           ELSE "throw"
    ELSE "empty"

\* a catch block that deranks on every 429 below the cap, not only on the first
CatchDecisionDerankingAlways(status, retry, cur) ==
  IF status = 429
    THEN IF retry < maxRetries
           THEN IF GetNextLowerModel(cur) # NullModel
                  THEN "derank"
                  ELSE "backoff"
           ELSE "empty"
    ELSE "empty"

\* a catch block that retries every failure below the cap
CatchDecisionRetryingAll(status, retry, cur) ==
  IF retry < maxRetries
    THEN IF status = 429 /\ retry = 0 /\ GetNextLowerModel(cur) # NullModel
           THEN "derank"
           ELSE "backoff"
    ELSE "empty"

\* a catch block that deranks on the first failure whatever its status
CatchDecisionDerankingOnAnyError(status, retry, cur) ==
  IF retry = 0 /\ GetNextLowerModel(cur) # NullModel
    THEN "derank"
    ELSE IF status = 429 /\ retry < maxRetries THEN "backoff" ELSE "empty"

\* the catch block of getAiResponse: what it does with a caught error
CatchDecision(status, retry, cur) ==
  IF status = 429
    THEN IF retry < maxRetries
           THEN IF retry = 0 /\ GetNextLowerModel(cur) # NullModel
                  THEN "derank"
                  ELSE "backoff"
           ELSE "empty"
    ELSE "empty"

\* a caller (reviewSingle / reviewBatch) invokes getAiResponse(prompt, isBatch)
StartRequest ==
  /\ pc \in {"idle", "done"}
  /\ reqNo < MaxRequests
  /\ reqNo' = reqNo + 1
  /\ pc' = "gate"
  /\ retryCount' = 0
  /\ result' = Pending
  /\ lastStatus' = NoError
  /\ response' = NoResponse
  /\ backoffs' = <<>>
  /\ UNCHANGED <<currentModelName, rateLimitDelay, lastRequestTime, now, calls>>
  /\ UNCHANGED <<resolverVars, parserVars, batchVars, analysisVars>>

\* await this.enforceRateLimit(), then generateContent is sent
EnforceRateLimit ==
  /\ pc = "gate"
  /\ LET timeSinceLastRequest == now - lastRequestTime
         waitTime == IF timeSinceLastRequest < rateLimitDelay
                       THEN rateLimitDelay - timeSinceLastRequest
                       ELSE 0
     IN /\ now' = now + waitTime
        /\ lastRequestTime' = now + waitTime
        /\ calls' = Append(calls, [req |-> reqNo, attempt |-> retryCount,
                                   model |-> currentModelName,
                                   time |-> now + waitTime,
                                   delay |-> rateLimitDelay])
  /\ pc' = "inflight"
  /\ response' = NoResponse
  /\ UNCHANGED <<currentModelName, rateLimitDelay, retryCount, result,
                 lastStatus, reqNo, backoffs>>
  /\ UNCHANGED <<resolverVars, parserVars, batchVars, analysisVars>>

\* the catch block, entered with an error of the given status after the
\* call has taken latency d
Catch(status, d) ==
  LET decision == CatchDecision(status, retryCount, currentModelName) IN
  /\ lastStatus' = status
  /\ CASE decision = "derank" ->
            \* derankModel() succeeded; recursive call with retryCount + 1
            /\ currentModelName' = GetNextLowerModel(currentModelName)
            /\ rateLimitDelay' = UpdateRateLimitDelay(GetNextLowerModel(currentModelName))
            /\ retryCount' = retryCount + 1
            /\ pc' = "gate"
            /\ now' = now + d
            /\ UNCHANGED <<result, backoffs>>
       [] decision = "backoff" ->
            /\ now' = now + d + BackoffDelay(retryCount)
            /\ backoffs' = Append(backoffs, BackoffDelay(retryCount))
            /\ retryCount' = retryCount + 1
            /\ pc' = "gate"
            /\ UNCHANGED <<currentModelName, rateLimitDelay, result>>
       [] decision = "empty" ->
            /\ result' = ListResult(<<>>)
            /\ pc' = "done"
            /\ now' = now + d
            /\ UNCHANGED <<currentModelName, rateLimitDelay, retryCount, backoffs>>
       [] OTHER ->
            \* an exception leaving the catch block rejects the promise
            /\ result' = Thrown
            /\ pc' = "done"
            /\ now' = now + d
            /\ UNCHANGED <<currentModelName, rateLimitDelay, retryCount, backoffs>>
  /\ UNCHANGED <<lastRequestTime, reqNo, calls>>
  /\ UNCHANGED <<resolverVars, parserVars, batchVars, analysisVars>>

\* generateContent resolves
CallReturns ==
  /\ pc = "inflight"
  /\ \E resp \in Responses, d \in CallLatencies :
       /\ response' = resp
       /\ IF resp.kind = "bad_json"
            THEN Catch(NoStatus, d)       \* JSON.parse throws a SyntaxError
            ELSE /\ result' = ListResult(IF resp.kind = "reviews"
                                           THEN FilterReviews(resp.reviews)
                                           ELSE <<>>)
                 /\ pc' = "done"
                 /\ now' = now + d
                 /\ lastStatus' = NoError
                 /\ UNCHANGED <<currentModelName, rateLimitDelay, lastRequestTime,
                                retryCount, reqNo, calls, backoffs>>
                 /\ UNCHANGED <<resolverVars, parserVars, batchVars, analysisVars>>

\* generateContent rejects
CallFails ==
  /\ pc = "inflight"
  /\ response' = NoResponse
  /\ \E status \in ErrorStatuses, d \in CallLatencies : Catch(status, d)

\* the resolvers at rest
ResolverIdle ==
  /\ rBatch = <<>>
  /\ aiResponses = <<>>
  /\ rForm = "none"
  /\ comments = <<>>

\* currentFileChanges = null
NullChanges == [set |-> FALSE, oldLines |-> 0, newLines |-> 0]

\* currentChunk = null
NullChunk == <<0, 0>>

\* parseDiff not called
ParserIdle ==
  /\ input = <<>>
  /\ lineNo = 1
  /\ files = <<>>
  /\ currentChunk = NullChunk
  /\ deletedLineCounter = 0
  /\ addedLineCounter = 0
  /\ currentFileChanges = NullChanges

\* no request made
InvokerIdle ==
  /\ currentModelName = "gemini-2.5-pro"
  /\ rateLimitDelay = UpdateRateLimitDelay("gemini-2.5-pro")
  /\ lastRequestTime = 0
  /\ now = StartTime
  /\ pc = "idle"
  /\ retryCount = 0
  /\ result = Pending
  /\ lastStatus = NoError
  /\ response = NoResponse
  /\ reqNo = 0
  /\ calls = <<>>
  /\ backoffs = <<>>

\* analyzeCodeChanges not called
AnalysisIdle ==
  /\ analysisFiles = <<>>
  /\ analysisPc = "idle"
  /\ batchIndex = 1
  /\ individualFiles = <<>>
  /\ individualIndex = 1
  /\ allComments = <<>>
  /\ callsInFlight = 0
  /\ trace = <<>>

\* new BatchProcessor(), createBatches not called
BatchIdle ==
  /\ maxBatchSize = 10
  /\ maxTokensPerBatch = 12000
  /\ batchFiles = <<>>
  /\ fileNo = 1
  /\ batches = <<>>
  /\ currentBatch = <<>>
  /\ currentTokenCount = 0
  /\ batchPc = "idle"

\* the state after construction
InitInvoker ==
  /\ ResolverIdle
  /\ ParserIdle
  /\ BatchIdle
  /\ AnalysisIdle
  /\ currentModelName \in ConfigurableModels
  /\ rateLimitDelay = UpdateRateLimitDelay(currentModelName)
  /\ lastRequestTime = 0
  /\ now = StartTime
  /\ pc = "idle"
  /\ retryCount = 0
  /\ result = Pending
  /\ lastStatus = NoError
  /\ response = NoResponse
  /\ reqNo = 0
  /\ calls = <<>>
  /\ backoffs = <<>>

NextInvoker == StartRequest \/ EnforceRateLimit \/ CallReturns \/ CallFails

SpecInvoker == InitInvoker /\ [][NextInvoker]_vars

\* the same with the scheduling of the event loop: the timers of the gate and
\* of the backoff fire, and every generateContent promise settles
SpecInvokerFair ==
  SpecInvoker /\ WF_vars(EnforceRateLimit) /\ WF_vars(CallReturns \/ CallFails)

(***************************************************************************)
(* Strings: sequences of one-character strings                             *)
(***************************************************************************)
\* characters matched by \s and removed by String.prototype.trim
IsWs(c) == c \in {" ", "\t"}

\* String.prototype.trim
RECURSIVE TrimStart(_)
TrimStart(s) == IF s # <<>> /\ IsWs(Head(s)) THEN TrimStart(Tail(s)) ELSE s

RECURSIVE TrimEnd(_)
TrimEnd(s) ==
  IF s # <<>> /\ IsWs(s[Len(s)]) THEN TrimEnd(SubSeq(s, 1, Len(s) - 1)) ELSE s

Trim(s) == TrimEnd(TrimStart(s))

\* s.replace(/\s+/g, " ")
RECURSIVE CollapseWs(_)
CollapseWs(s) ==
  IF s = <<>> THEN <<>>
  ELSE IF IsWs(Head(s))
         THEN <<" ">> \o CollapseWs(TrimStart(s))
         ELSE <<Head(s)>> \o CollapseWs(Tail(s))

\* line.trim().replace(/\s+/g, " ")
Normalize(s) == CollapseWs(Trim(s))

\* s.startsWith("+")
StartsWithPlus(s) == s # <<>> /\ Head(s) = "+"

\* all strings over the characters C of length at most n
StringsUpTo(C, n) == SeqsUpTo(C, n)

(***************************************************************************)
(* helpers.ts: hunk lines and the single-hunk and multi-hunk resolvers     *)
(***************************************************************************)
\* convertChangeToLine: the marker of the change type, then the content
ConvertChangeToLine(change) ==
  CASE change.type = "add"    -> <<"+">> \o change.content
    [] change.type = "del"    -> <<"-">> \o change.content
    [] change.type = "normal" -> <<" ">> \o change.content
    [] OTHER                  -> change.content

\* a search that returns the last matching line instead of the first
FindPositionOfLast(lines, normalizedAiLine) ==
  IF \E i \in 1..Len(lines) : Normalize(lines[i]) = normalizedAiLine
    THEN CHOOSE i \in 1..Len(lines) :
           /\ Normalize(lines[i]) = normalizedAiLine
           /\ \A j \in (i + 1)..Len(lines) : Normalize(lines[j]) # normalizedAiLine
    ELSE 0

\* Array.prototype.findIndex(...) + 1 with the normalized comparison:
\* the 1-based index of the first line equal to the normalized candidate,
\* 0 when there is none
FindPosition(lines, normalizedAiLine) ==
  IF \E i \in 1..Len(lines) : Normalize(lines[i]) = normalizedAiLine
    THEN CHOOSE i \in 1..Len(lines) :
           /\ Normalize(lines[i]) = normalizedAiLine
           /\ \A j \in 1..(i - 1) : Normalize(lines[j]) # normalizedAiLine
    ELSE 0

AcceptsAnyLineContent(lineContent) == lineContent # <<>>

\* the guard of all three resolvers, negated:
\* !(!lineContent || !lineContent.trim().startsWith("+"))
AcceptsLineContent(lineContent) ==
  lineContent # <<>> /\ StartsWithPlus(Trim(lineContent))

\* a single-hunk resolver that pushes a comment for every line of the hunk
\* equal to the candidate, not only for the first
RECURSIVE CreateCommentsForEveryMatch(_, _, _, _, _)
CreateCommentsForEveryMatch(filePath, hunk, responses, fileIdx, hunkIdx) ==
  IF responses = <<>> THEN <<>>
  ELSE
    LET aiResponse == Head(responses)
        rest == CreateCommentsForEveryMatch(filePath, hunk, Tail(responses),
                                            fileIdx, hunkIdx)
        matches == SelectSeq([k \in 1..Len(hunk.lines) |-> k],
                             LAMBDA k : Normalize(hunk.lines[k]) =
                                          Normalize(aiResponse.lineContent))
    IN IF ~AcceptsLineContent(aiResponse.lineContent) THEN rest
       ELSE [k \in 1..Len(matches) |->
               [body |-> aiResponse.reviewComment, path |-> filePath,
                position |-> matches[k], file |-> fileIdx, hunk |-> hunkIdx]] \o rest

\* createCommentsFromAiResponses(filePath, hunk, aiResponses).  fileIdx and
\* hunkIdx say where hunk sits in the input; they are copied into the file
\* and hunk fields of the comments, which the program's comments
\* ({body, path, position}) do not have.
RECURSIVE CreateCommentsFromAiResponses(_, _, _, _, _)
CreateCommentsFromAiResponses(filePath, hunk, responses, fileIdx, hunkIdx) ==
  IF responses = <<>> THEN <<>>
  ELSE
    LET aiResponse == Head(responses)
        rest == CreateCommentsFromAiResponses(filePath, hunk, Tail(responses),
                                              fileIdx, hunkIdx)
        position == FindPosition(hunk.lines, Normalize(aiResponse.lineContent))
    IN IF ~AcceptsLineContent(aiResponse.lineContent) THEN rest
       ELSE IF position = 0 THEN rest
       ELSE <<[body |-> aiResponse.reviewComment, path |-> filePath,
               position |-> position, file |-> fileIdx, hunk |-> hunkIdx]>> \o rest

\* a search over the hunks that keeps the last hunk with a matching line
LastHunkWith(hunks, normalizedAiLine) ==
  IF \E h \in 1..Len(hunks) : FindPosition(hunks[h].lines, normalizedAiLine) > 0
    THEN CHOOSE h \in 1..Len(hunks) :
           /\ FindPosition(hunks[h].lines, normalizedAiLine) > 0
           /\ \A g \in (h + 1)..Len(hunks) :
                FindPosition(hunks[g].lines, normalizedAiLine) = 0
    ELSE 0

\* the index of the first hunk with a line equal to the normalized
\* candidate, 0 when there is none (the nested loops with found / break)
FirstHunkWith(hunks, normalizedAiLine) ==
  IF \E h \in 1..Len(hunks) : FindPosition(hunks[h].lines, normalizedAiLine) > 0
    THEN CHOOSE h \in 1..Len(hunks) :
           /\ FindPosition(hunks[h].lines, normalizedAiLine) > 0
           /\ \A g \in 1..(h - 1) : FindPosition(hunks[g].lines, normalizedAiLine) = 0
    ELSE 0

\* createCommentsFromAiResponsesForMultipleHunks(filePath, hunks, aiResponses)
RECURSIVE CreateCommentsFromAiResponsesForMultipleHunks(_, _, _, _)
CreateCommentsFromAiResponsesForMultipleHunks(filePath, hunks, responses, fileIdx) ==
  IF responses = <<>> THEN <<>>
  ELSE
    LET aiResponse == Head(responses)
        rest == CreateCommentsFromAiResponsesForMultipleHunks(
                  filePath, hunks, Tail(responses), fileIdx)
        h == FirstHunkWith(hunks, Normalize(aiResponse.lineContent))
    IN IF ~AcceptsLineContent(aiResponse.lineContent) THEN rest
       ELSE IF h = 0 THEN rest
       ELSE CreateCommentsFromAiResponses(filePath, hunks[h], <<aiResponse>>,
                                          fileIdx, h) \o rest

(***************************************************************************)
(* batch-processor.ts: the batch resolver                                  *)
(***************************************************************************)
\* findFileAndPosition(batch, lineContent): the first file, in batch order,
\* with a hunk holding a matching line; NotFound is the null result
NotFound == [filePath |-> "", position |-> 0, file |-> 0, hunk |-> 0]

\* a search over the files of the batch that keeps the last file with a
\* matching line
FindFileAndPositionInLastFile(batch, lineContent) ==
  LET normalizedAiLine == Normalize(lineContent)
      hunkOf == [k \in 1..Len(batch) |->
                   FirstHunkWith(batch[k].originalHunks, normalizedAiLine)]
  IN IF \E f \in 1..Len(batch) : hunkOf[f] > 0
       THEN LET last == CHOOSE f \in 1..Len(batch) :
                          hunkOf[f] > 0 /\ \A g \in (f + 1)..Len(batch) : hunkOf[g] = 0
            IN [filePath |-> batch[last].path,
                position |-> FindPosition(
                               batch[last].originalHunks[hunkOf[last]].lines,
                               normalizedAiLine),
                file |-> last, hunk |-> hunkOf[last]]
       ELSE NotFound

\* findFileAndPosition: the nested loops over batch.files and
\* file.originalHunks with the return at the first position > 0
FindFileAndPosition(batch, lineContent) ==
  LET normalizedAiLine == Normalize(lineContent)
      hunkOf == [k \in 1..Len(batch) |->
                   FirstHunkWith(batch[k].originalHunks, normalizedAiLine)]
  IN IF \E f \in 1..Len(batch) : hunkOf[f] > 0
       THEN LET first == CHOOSE f \in 1..Len(batch) :
                           hunkOf[f] > 0 /\ \A g \in 1..(f - 1) : hunkOf[g] = 0
            IN [filePath |-> batch[first].path,
                position |-> FindPosition(
                               batch[first].originalHunks[hunkOf[first]].lines,
                               normalizedAiLine),
                file |-> first, hunk |-> hunkOf[first]]
       ELSE NotFound

\* createCommentsFromBatchResponse(batch, aiResponses)
RECURSIVE CreateCommentsFromBatchResponse(_, _)
CreateCommentsFromBatchResponse(batch, responses) ==
  IF responses = <<>> THEN <<>>
  ELSE
    LET aiResponse == Head(responses)
        rest == CreateCommentsFromBatchResponse(batch, Tail(responses))
        matchResult == FindFileAndPosition(batch, aiResponse.lineContent)
    IN IF ~AcceptsLineContent(aiResponse.lineContent) THEN rest
       ELSE IF matchResult = NotFound THEN rest
       ELSE <<[body |-> aiResponse.reviewComment, path |-> matchResult.filePath,
               position |-> matchResult.position,
               file |-> matchResult.file, hunk |-> matchResult.hunk]>> \o rest

(***************************************************************************)
(* Inputs of the resolvers                                                 *)
(***************************************************************************)
\* the texts of the changed lines (content, without the marker): an empty
\* line, a plain line, and a line whose own text starts with "+"
LineTexts == {<<>>, <<"a">>, <<"+", "a">>}

\* characters of the lineContent of a suggestion
CandidateChars == {"+", "-", " ", "a"}

ChangeTypes == {"add", "del", "normal"}

\* the lines convertChunkToHunkData builds from parsed changes
HunkLines ==
  {ConvertChangeToLine([type |-> t, content |-> c]) :
     t \in ChangeTypes, c \in LineTexts}

\* where a line of the input sits: <<file, hunk>>, in diff order
Slots == << <<1, 1>>, <<1, 2>>, <<2, 1>> >>

\* the lines of slot k of a placement: pl is a sequence of <<line, slot>>
\* pairs with non-decreasing slots
LinesOfSlot(pl, k) ==
  LET sel == SelectSeq(pl, LAMBDA e : e[2] = k)
  IN [i \in 1..Len(sel) |-> sel[i][1]]

\* two files, the first with two hunks, the second with one (batch files
\* as createBatches builds them: path and originalHunks)
BatchOf(pl) ==
  << [path |-> "f1", originalHunks |-> << [lines |-> LinesOfSlot(pl, 1)],
                                          [lines |-> LinesOfSlot(pl, 2)] >>],
     [path |-> "f2", originalHunks |-> << [lines |-> LinesOfSlot(pl, 3)] >>] >>

Placements ==
  {pl \in SeqsUpTo(HunkLines \X (1..Len(Slots)), MaxTotalLines) :
     \A i \in 1..(Len(pl) - 1) : pl[i][2] <= pl[i + 1][2]}

ResolverBatches == {BatchOf(pl) : pl \in Placements}

\* the suggestions: any lineContent, a fixed non-empty reviewComment
Suggestions ==
  {[lineContent |-> c, reviewComment |-> "c"] :
     c \in StringsUpTo(CandidateChars, MaxCandLen)}

\* the hunk of the scenario: -old, +new1, +new2 and a context line
ScenarioHunk ==
  [lines |-> << <<"-", "o", "l", "d">>,
                <<"+", "n", "e", "w", "1">>,
                <<"+", "n", "e", "w", "2">>,
                <<" ", "c", "o", "n", "t", "e", "x", "t">> >>]

\* the scenario hunk as the first hunk of the first file
ScenarioBatch ==
  << [path |-> "f1", originalHunks |-> << ScenarioHunk, [lines |-> <<>>] >>],
     [path |-> "f2", originalHunks |-> << [lines |-> <<>>] >>] >>

\* the suggestions of the scenario: "+new2" and "+nonexistent"
SuggestNew2 ==
  [lineContent |-> <<"+", "n", "e", "w", "2">>, reviewComment |-> "c"]
SuggestNonexistent ==
  [lineContent |-> <<"+", "n", "o", "n", "e", "x", "i", "s", "t", "e", "n", "t">>,
   reviewComment |-> "c"]

\* responses with two suggestions: the same added line quoted twice, and a
\* deleted line followed by an added line
SuggestTwice ==
  << [lineContent |-> <<"+", "a">>, reviewComment |-> "c"],
     [lineContent |-> <<"+", "a">>, reviewComment |-> "d"] >>
SuggestMixed ==
  << [lineContent |-> <<"-", "a">>, reviewComment |-> "c"],
     [lineContent |-> <<"+", "a">>, reviewComment |-> "d"] >>

InitResolver ==
  /\ rBatch \in ResolverBatches \cup {ScenarioBatch}
  /\ aiResponses \in
       {<<r>> : r \in Suggestions \cup {SuggestNew2, SuggestNonexistent}}
         \cup {SuggestTwice, SuggestMixed}
  /\ rForm = "none"
  /\ comments = <<>>
  /\ InvokerIdle
  /\ ParserIdle
  /\ BatchIdle
  /\ AnalysisIdle

\* processFileWithAllHunks with one valid hunk: the single-hunk resolver on
\* the first hunk of the first file
ResolveSingleHunk ==
  /\ rForm = "none"
  /\ rForm' = "single"
  /\ comments' = CreateCommentsFromAiResponses(
                   rBatch[1].path, rBatch[1].originalHunks[1], aiResponses, 1, 1)
  /\ UNCHANGED <<rBatch, aiResponses>>
  /\ UNCHANGED <<invokerVars, parserVars, batchVars, analysisVars>>

\* processMultipleHunksForFile: the multi-hunk resolver on the first file
ResolveMultipleHunks ==
  /\ rForm = "none"
  /\ rForm' = "multi"
  /\ comments' = CreateCommentsFromAiResponsesForMultipleHunks(
                   rBatch[1].path, rBatch[1].originalHunks, aiResponses, 1)
  /\ UNCHANGED <<rBatch, aiResponses>>
  /\ UNCHANGED <<invokerVars, parserVars, batchVars, analysisVars>>

\* analyzeBatchMode: the batch resolver on all files
ResolveBatch ==
  /\ rForm = "none"
  /\ rForm' = "batch"
  /\ comments' = CreateCommentsFromBatchResponse(rBatch, aiResponses)
  /\ UNCHANGED <<rBatch, aiResponses>>
  /\ UNCHANGED <<invokerVars, parserVars, batchVars, analysisVars>>

NextResolver == ResolveSingleHunk \/ ResolveMultipleHunks \/ ResolveBatch

SpecResolver == InitResolver /\ [][NextResolver]_vars

(***************************************************************************)
(* parseDiff: the lines of a diff                                          *)
(***************************************************************************)
\* A physical line of the input is a record with a tag saying which
\* pattern of the parser its text has; Raw(line) is its text.
\*   diff         "diff --git a/<from> b/<to>"
\*   newfile      "new file mode 100644"      deletedfile  "deleted file mode 100644"
\*   oldmode      "old mode 100644"           newmode      "new mode 100755"
\*   index        "index 1a2b..3c4d"
\*   from         "--- <name>"                to           "+++ <name>"
\*   chunk        "@@ -oldStart[,oldNumLines] +newStart[,newNumLines] @@"
\*   eof          "\ No newline at end of file"
\*   text         any other line, given by its characters
DiffLine(f, t) == [tag |-> "diff", from |-> f, to |-> t]
MetaLine(tag) == [tag |-> tag]
IndexLine(mode) == [tag |-> "index", mode |-> mode]
FromLine(name) == [tag |-> "from", name |-> name]
ToLine(name) == [tag |-> "to", name |-> name]
ChunkLine(os, onl, ns, nnl) ==
  [tag |-> "chunk", oldStart |-> os, oldNumLines |-> onl,
   newStart |-> ns, newNumLines |-> nnl, names |-> <<>>]
EofLine == [tag |-> "eof"]
TextLine(raw) == [tag |-> "text", raw |-> raw]

\* a count left out of a hunk header ("@@ -3 +3 @@"): the capture group is
\* undefined
Omitted == -1

\* "@@ -1 +1 @@ src/x": a hunk header followed by the text of the enclosing
\* section; names is what parseFiles finds in the line (fileNameDiffRegex
\* matches "c/x", of which the leading "c/" is removed)
SectionChunkLine ==
  [tag |-> "chunk", oldStart |-> 1, oldNumLines |-> Omitted,
   newStart |-> 1, newNumLines |-> Omitted, names |-> <<"x">>]

\* a field that is not set (ln, ln1, ln2 of a change)
Undefined == -1

\* the text of a line (header lines shortened to their leading characters)
Raw(line) ==
  CASE line.tag = "text"  -> line.raw
    [] line.tag = "from"  -> <<"-", "-", "-", " ">> \o <<line.name>>
    [] line.tag = "to"    -> <<"+", "+", "+", " ">> \o <<line.name>>
    [] line.tag = "eof"   -> <<"\\", " ", "N", "o">>
    [] line.tag = "chunk" -> <<"@", "@">>
    [] line.tag = "diff"  -> <<"d", "i", "f", "f">>
    [] line.tag = "index" -> <<"i">>
    [] line.tag \in {"newfile", "newmode"} -> <<"n">>
    [] line.tag = "deletedfile" -> <<"d">>
    [] OTHER -> <<"o">>

\* schemaHeaders: the handler of the first pattern the line matches
HeaderHandler(line) ==
  CASE line.tag = "diff"        -> "start"
    [] line.tag = "newfile"     -> "newFile"
    [] line.tag = "deletedfile" -> "deletedFile"
    [] line.tag = "oldmode"     -> "oldMode"
    [] line.tag = "newmode"     -> "newMode"
    [] line.tag = "index"       -> "index"
    [] line.tag = "from"        -> "fromFile"
    [] line.tag = "to"          -> "toFile"
    [] line.tag = "chunk"       -> "chunk"
    [] line.tag = "eof"         -> "eof"
    [] OTHER                    -> "none"

\* a content handler that takes a line no pattern matches for a context line
ContentHandlerDefaultNormal(line) ==
  IF line.tag = "eof" THEN "eof"
  ELSE IF Raw(line) # <<>> /\ Head(Raw(line)) = "-" THEN "del"
  ELSE IF Raw(line) # <<>> /\ Head(Raw(line)) = "+" THEN "add"
  ELSE "normal"

\* schemaContent: the handler of the first pattern the line matches
ContentHandler(line) ==
  LET raw == Raw(line) IN
    IF line.tag = "eof" THEN "eof"
    ELSE IF raw # <<>> /\ Head(raw) = "-" THEN "del"
    ELSE IF raw # <<>> /\ Head(raw) = "+" THEN "add"
    ELSE IF raw # <<>> /\ IsWs(Head(raw)) THEN "normal"
    ELSE "none"

\* parseLine: content mode while currentFileChanges is set
Handler(line, changes) ==
  IF changes.set THEN ContentHandler(line) ELSE HeaderHandler(line)

\* toNumOfLines: +(number || 1) on the captured text
ToNumOfLines(number) == IF number = Omitted THEN 1 ELSE number

\* line.slice(1)
Slice1(raw) == IF raw = <<>> THEN <<>> ELSE Tail(raw)

\* the file start() creates
NewFile(f, t) ==
  [chunks |-> <<>>, deletions |-> 0, additions |-> 0, from |-> f, to |-> t,
   new |-> FALSE, deleted |-> FALSE, oldMode |-> "", newMode |-> "",
   index |-> FALSE]

\* restart(): files after it; a new file is started when there is no current
\* file or the current file has chunks.  The current file is always the
\* last element of files.
Restart(fs) ==
  IF fs = <<>> \/ fs[Len(fs)].chunks # <<>>
    THEN Append(fs, NewFile("", ""))
    ELSE fs

\* the end of parseContentLine: the budgets are dropped when both are zero
CloseIfDone(changes) ==
  IF changes.set /\ changes.oldLines = 0 /\ changes.newLines = 0
    THEN NullChanges
    ELSE changes

\* a change pushed to currentChunk.changes
Change(type, ln, ln1, ln2, content) ==
  [type |-> type, ln |-> ln, ln1 |-> ln1, ln2 |-> ln2, content |-> content]

\* currentChunk.changes.push(change)
PushChange(fs, chunkRef, change) ==
  [fs EXCEPT ![chunkRef[1]].chunks[chunkRef[2]].changes = Append(@, change)]

\* the line the for loop is at
HasLine == lineNo <= Len(input)
Line == input[lineNo]

(***************************************************************************)
(* parseDiff: one action per line handler.  Each action is parseLine for   *)
(* one line: the dispatch on the mode, the handler, and in content mode    *)
(* the check that closes the hunk.                                         *)
(***************************************************************************)
NextLine == lineNo' = lineNo + 1 /\ UNCHANGED input

\* the file-level handlers leave the hunk state alone
HeaderFrame ==
  UNCHANGED <<currentChunk, deletedLineCounter, addedLineCounter,
              currentFileChanges>>

\* start: "diff ..." opens a file named by parseFiles(line)
ParseStart ==
  /\ HasLine /\ Handler(Line, currentFileChanges) = "start"
  /\ files' = Append(files, NewFile(Line.from, Line.to))
  /\ NextLine /\ HeaderFrame
  /\ UNCHANGED <<invokerVars, resolverVars, batchVars, analysisVars>>

\* newFile: "new file mode <mode>"
ParseNewFile ==
  /\ HasLine /\ Handler(Line, currentFileChanges) = "newFile"
  /\ LET fs == Restart(files) IN
       files' = [fs EXCEPT ![Len(fs)].new = TRUE,
                           ![Len(fs)].newMode = "100644",
                           ![Len(fs)].from = "/dev/null"]
  /\ NextLine /\ HeaderFrame
  /\ UNCHANGED <<invokerVars, resolverVars, batchVars, analysisVars>>

\* deletedFile: "deleted file mode <mode>"
ParseDeletedFile ==
  /\ HasLine /\ Handler(Line, currentFileChanges) = "deletedFile"
  /\ LET fs == Restart(files) IN
       files' = [fs EXCEPT ![Len(fs)].deleted = TRUE,
                           ![Len(fs)].oldMode = "100644",
                           ![Len(fs)].to = "/dev/null"]
  /\ NextLine /\ HeaderFrame
  /\ UNCHANGED <<invokerVars, resolverVars, batchVars, analysisVars>>

\* oldMode: "old mode <mode>"
ParseOldMode ==
  /\ HasLine /\ Handler(Line, currentFileChanges) = "oldMode"
  /\ LET fs == Restart(files) IN
       files' = [fs EXCEPT ![Len(fs)].oldMode = "100644"]
  /\ NextLine /\ HeaderFrame
  /\ UNCHANGED <<invokerVars, resolverVars, batchVars, analysisVars>>

\* newMode: "new mode <mode>"
ParseNewMode ==
  /\ HasLine /\ Handler(Line, currentFileChanges) = "newMode"
  /\ LET fs == Restart(files) IN
       files' = [fs EXCEPT ![Len(fs)].newMode = "100755"]
  /\ NextLine /\ HeaderFrame
  /\ UNCHANGED <<invokerVars, resolverVars, batchVars, analysisVars>>

\* index: "index <hash>..<hash>[ <mode>]"
ParseIndex ==
  /\ HasLine /\ Handler(Line, currentFileChanges) = "index"
  /\ LET fs == Restart(files) IN
       files' = IF Line.mode # ""
                  THEN [fs EXCEPT ![Len(fs)].index = TRUE,
                                  ![Len(fs)].oldMode = Line.mode,
                                  ![Len(fs)].newMode = Line.mode]
                  ELSE [fs EXCEPT ![Len(fs)].index = TRUE]
  /\ NextLine /\ HeaderFrame
  /\ UNCHANGED <<invokerVars, resolverVars, batchVars, analysisVars>>

\* fromFile: "--- <name>"
ParseFromFile ==
  /\ HasLine /\ Handler(Line, currentFileChanges) = "fromFile"
  /\ LET fs == Restart(files) IN
       files' = [fs EXCEPT ![Len(fs)].from = Line.name]
  /\ NextLine /\ HeaderFrame
  /\ UNCHANGED <<invokerVars, resolverVars, batchVars, analysisVars>>

\* toFile: "+++ <name>"
ParseToFile ==
  /\ HasLine /\ Handler(Line, currentFileChanges) = "toFile"
  /\ LET fs == Restart(files) IN
       files' = [fs EXCEPT ![Len(fs)].to = Line.name]
  /\ NextLine /\ HeaderFrame
  /\ UNCHANGED <<invokerVars, resolverVars, batchVars, analysisVars>>

\* const [fromFileName, toFileName] = parseFiles(line) ?? []; name || ""
NameAt(names, k) == IF k <= Len(names) THEN names[k] ELSE ""

\* chunk: a hunk header.  Without a current file start(line) opens one,
\* named by what parseFiles finds in the hunk header line.
ParseChunk ==
  /\ HasLine /\ Handler(Line, currentFileChanges) = "chunk"
  /\ LET fs == IF files = <<>>
                 THEN <<NewFile(NameAt(Line.names, 1), NameAt(Line.names, 2))>>
                 ELSE files
         chunk == [content |-> Line, changes |-> <<>>,
                   oldStart |-> Line.oldStart,
                   oldLines |-> ToNumOfLines(Line.oldNumLines),
                   newStart |-> Line.newStart,
                   newLines |-> ToNumOfLines(Line.newNumLines)]
     IN /\ files' = [fs EXCEPT ![Len(fs)].chunks = Append(@, chunk)]
        /\ currentChunk' = <<Len(fs), Len(fs[Len(fs)].chunks) + 1>>
  /\ deletedLineCounter' = Line.oldStart
  /\ addedLineCounter' = Line.newStart
  /\ currentFileChanges' = [set |-> TRUE,
                            oldLines |-> ToNumOfLines(Line.oldNumLines),
                            newLines |-> ToNumOfLines(Line.newNumLines)]
  /\ NextLine
  /\ UNCHANGED <<invokerVars, resolverVars, batchVars, analysisVars>>

\* del: a line starting with "-" in content mode
ParseDel ==
  /\ HasLine /\ Handler(Line, currentFileChanges) = "del"
  /\ files' = [PushChange(files, currentChunk,
                 Change("del", deletedLineCounter, Undefined, Undefined,
                        Slice1(Raw(Line))))
                 EXCEPT ![Len(files)].deletions = @ + 1]
  /\ deletedLineCounter' = deletedLineCounter + 1
  /\ currentFileChanges' =
       CloseIfDone([currentFileChanges EXCEPT !.oldLines = @ - 1])
  /\ NextLine
  /\ UNCHANGED <<currentChunk, addedLineCounter>>
  /\ UNCHANGED <<invokerVars, resolverVars, batchVars, analysisVars>>

\* add: a line starting with "+" in content mode
ParseAdd ==
  /\ HasLine /\ Handler(Line, currentFileChanges) = "add"
  /\ files' = [PushChange(files, currentChunk,
                 Change("add", addedLineCounter, Undefined, Undefined,
                        Slice1(Raw(Line))))
                 EXCEPT ![Len(files)].additions = @ + 1]
  /\ addedLineCounter' = addedLineCounter + 1
  /\ currentFileChanges' =
       CloseIfDone([currentFileChanges EXCEPT !.newLines = @ - 1])
  /\ NextLine
  /\ UNCHANGED <<currentChunk, deletedLineCounter>>
  /\ UNCHANGED <<invokerVars, resolverVars, batchVars, analysisVars>>

\* normal: a line starting with white space in content mode
ParseNormal ==
  /\ HasLine /\ Handler(Line, currentFileChanges) = "normal"
  /\ files' = PushChange(files, currentChunk,
                Change("normal", Undefined, deletedLineCounter, addedLineCounter,
                       Slice1(Raw(Line))))
  /\ deletedLineCounter' = deletedLineCounter + 1
  /\ addedLineCounter' = addedLineCounter + 1
  /\ currentFileChanges' =
       CloseIfDone([currentFileChanges EXCEPT !.oldLines = @ - 1,
                                              !.newLines = @ - 1])
  /\ NextLine
  /\ UNCHANGED currentChunk
  /\ UNCHANGED <<invokerVars, resolverVars, batchVars, analysisVars>>

\* eof: "\ No newline at end of file", in either mode: a change with the
\* type and line numbers of the most recent change and the marker line as
\* content is pushed
ParseEof ==
  /\ HasLine /\ Handler(Line, currentFileChanges) = "eof"
  /\ IF currentChunk = NullChunk
          \/ files[currentChunk[1]].chunks[currentChunk[2]].changes = <<>>
       THEN UNCHANGED files
       ELSE LET changes == files[currentChunk[1]].chunks[currentChunk[2]].changes
                mostRecentChange == changes[Len(changes)]
            IN files' = PushChange(files, currentChunk,
                          Change(mostRecentChange.type, mostRecentChange.ln,
                                 mostRecentChange.ln1, mostRecentChange.ln2,
                                 Raw(Line)))
  /\ currentFileChanges' = CloseIfDone(currentFileChanges)
  /\ NextLine
  /\ UNCHANGED <<currentChunk, deletedLineCounter, addedLineCounter>>
  /\ UNCHANGED <<invokerVars, resolverVars, batchVars, analysisVars>>

\* a line no pattern of the current mode matches
SkipLine ==
  /\ HasLine /\ Handler(Line, currentFileChanges) = "none"
  /\ currentFileChanges' = CloseIfDone(currentFileChanges)
  /\ NextLine
  /\ UNCHANGED <<files, currentChunk, deletedLineCounter, addedLineCounter>>
  /\ UNCHANGED <<invokerVars, resolverVars, batchVars, analysisVars>>

(***************************************************************************)
(* Valid unified diffs given to the parser                                 *)
(***************************************************************************)
\* the changed lines a hunk body is made of, each with the side(s) of the
\* file it belongs to.  "--- a" is the deleted line whose text is "-- a".
BodyLines ==
  { [kind |-> "del",    line |-> TextLine(<<"-", "a">>)],
    [kind |-> "add",    line |-> TextLine(<<"+", "a">>)],
    [kind |-> "normal", line |-> TextLine(<<" ", "a">>)],
    [kind |-> "del",    line |-> FromLine("a")] }

\* where the file ends without a newline: on neither side, the old side,
\* the new side or both
EofSides == {"none", "old", "new", "both"}

HunkShapes ==
  [body : SeqsUpTo(BodyLines, MaxBodyLines) \ {<<>>}, eof : EofSides]

CountKinds(body, kinds) ==
  Cardinality({i \in 1..Len(body) : body[i].kind \in kinds})

\* index of the last body line of one of the kinds, 0 when there is none
LastOfKinds(body, kinds) ==
  IF \E i \in 1..Len(body) : body[i].kind \in kinds
    THEN CHOOSE i \in 1..Len(body) :
           /\ body[i].kind \in kinds
           /\ \A j \in (i + 1)..Len(body) : body[j].kind \notin kinds
    ELSE 0

\* the body lines after which a no-newline marker stands: the last line of
\* the old side and/or the last line of the new side
MarkedLines(h) ==
  (IF h.eof \in {"old", "both"}
     THEN {LastOfKinds(h.body, {"del", "normal"})} ELSE {})
  \cup (IF h.eof \in {"new", "both"}
          THEN {LastOfKinds(h.body, {"add", "normal"})} ELSE {})

RECURSIVE RenderBody(_, _, _)
RenderBody(body, marked, i) ==
  IF i > Len(body) THEN <<>>
  ELSE <<body[i].line>>
         \o (IF i \in marked THEN <<EofLine>> ELSE <<>>)
         \o RenderBody(body, marked, i + 1)

\* a count of 1 is left out of the header, as git and diff -u print it
HeaderCount(n) == IF n = 1 THEN Omitted ELSE n

\* the lines of a hunk: the header with the counts of its body, the body
\* and its markers.  A side without lines starts at line 0.
RenderHunk(h, oldStart, newStart) ==
  LET oldCount == CountKinds(h.body, {"del", "normal"})
      newCount == CountKinds(h.body, {"add", "normal"})
  IN <<ChunkLine(IF oldCount = 0 THEN 0 ELSE oldStart, HeaderCount(oldCount),
                 IF newCount = 0 THEN 0 ELSE newStart, HeaderCount(newCount))>>
       \o RenderBody(h.body, MarkedLines(h), 1)

\* the header lines of a file: a modified file, a new file, a deleted file,
\* a file with a mode change, and the header of diff -u (no "diff" line)
FileHeaders ==
  { <<DiffLine("x", "x"), IndexLine("100644"), FromLine("x"), ToLine("x")>>,
    <<DiffLine("x", "x"), MetaLine("newfile"), IndexLine(""),
      FromLine("/dev/null"), ToLine("x")>>,
    <<DiffLine("x", "x"), MetaLine("deletedfile"), IndexLine(""),
      FromLine("x"), ToLine("/dev/null")>>,
    <<DiffLine("x", "x"), MetaLine("oldmode"), MetaLine("newmode"),
      IndexLine(""), FromLine("x"), ToLine("x")>>,
    <<FromLine("x"), ToLine("x")>> }

SecondFileHeader ==
  <<DiffLine("y", "y"), IndexLine("100644"), FromLine("y"), ToLine("y")>>

\* the empty string input.split("\n") ends with when the text ends with "\n"
BlankLine == TextLine(<<>>)

\* the header of a modified file
PlainHeader ==
  <<DiffLine("x", "x"), IndexLine("100644"), FromLine("x"), ToLine("x")>>

\* pairs of hunks with at most MaxBodyLines changed lines together
HunkPairs ==
  {p \in HunkShapes \X HunkShapes : Len(p[1].body) + Len(p[2].body) <= MaxBodyLines}

\* diffs with one hunk under each file header, with two hunks of one file
\* (only the last hunk of a file can reach the end of the file), and with
\* two files of one hunk each
ValidDiffs ==
  {hd \o RenderHunk(h, 1, 1) \o <<BlankLine>> :
     hd \in FileHeaders, h \in HunkShapes}
  \cup
  {PlainHeader \o RenderHunk(p[1], 1, 1) \o RenderHunk(p[2], 10, 12)
      \o <<BlankLine>> :
     p \in {q \in HunkPairs : q[1].eof = "none"}}
  \cup
  {PlainHeader \o RenderHunk(p[1], 1, 1) \o SecondFileHeader
      \o RenderHunk(p[2], 1, 1) \o <<BlankLine>> :
     p \in HunkPairs}

\* parseDiff(input) is called with a valid diff
InitParser ==
  /\ input \in ValidDiffs
  /\ lineNo = 1
  /\ files = <<>>
  /\ currentChunk = NullChunk
  /\ deletedLineCounter = 0
  /\ addedLineCounter = 0
  /\ currentFileChanges = NullChanges
  /\ InvokerIdle
  /\ ResolverIdle
  /\ BatchIdle
  /\ AnalysisIdle

NextParser ==
  \/ ParseStart \/ ParseNewFile \/ ParseDeletedFile \/ ParseOldMode
  \/ ParseNewMode \/ ParseIndex \/ ParseFromFile \/ ParseToFile
  \/ ParseChunk \/ ParseDel \/ ParseAdd \/ ParseNormal \/ ParseEof
  \/ SkipLine

SpecParser == InitParser /\ [][NextParser]_vars

(***************************************************************************)
(* parseDiff on any input                                                  *)
(***************************************************************************)
\* longest input, in lines, given to the parser when it need not be a diff
MaxAnyLines == 3

\* !input || input.match(/^\s+$/): the input is empty or only white space
\* (input.split("\n") of the empty string is one empty line)
BlankInput(lines) ==
  \A i \in 1..Len(lines) :
    /\ lines[i].tag = "text"
    /\ \A k \in 1..Len(lines[i].raw) : IsWs(lines[i].raw[k])

\* the early returns of parseDiff: return [] without parsing a line
ReturnEmpty ==
  /\ lineNo = 1
  /\ HasLine
  /\ BlankInput(input)
  /\ lineNo' = Len(input) + 1
  /\ UNCHANGED <<input, files, currentChunk, deletedLineCounter,
                 addedLineCounter, currentFileChanges>>
  /\ UNCHANGED <<invokerVars, resolverVars, batchVars, analysisVars>>

\* the lines of an arbitrary input: every header line, hunk headers with left
\* out counts, with one and with both counts zero and with the text of a
\* section, the marker, hunk body lines, an empty line, a
\* blank line and a line that is none of these
AnyLines ==
  { DiffLine("x", "x"), MetaLine("newfile"), MetaLine("deletedfile"),
    MetaLine("oldmode"), MetaLine("newmode"), IndexLine("100644"),
    FromLine("x"), ToLine("x"),
    ChunkLine(1, Omitted, 1, Omitted), ChunkLine(1, 0, 1, 2),
    ChunkLine(0, 0, 0, 0), SectionChunkLine, EofLine,
    TextLine(<<"-", "a">>), TextLine(<<"+", "a">>), TextLine(<<" ", "a">>),
    TextLine(<<>>), TextLine(<<" ">>), TextLine(<<"a">>) }

\* parseDiff(input) is called with any string
InitParserAny ==
  /\ input \in SeqsUpTo(AnyLines, MaxAnyLines) \ {<<>>}
  /\ lineNo = 1
  /\ files = <<>>
  /\ currentChunk = NullChunk
  /\ deletedLineCounter = 0
  /\ addedLineCounter = 0
  /\ currentFileChanges = NullChanges
  /\ InvokerIdle
  /\ ResolverIdle
  /\ BatchIdle
  /\ AnalysisIdle

\* the loop over the lines is entered only when the input is not blank
ParseLoop == ~BlankInput(input) /\ NextParser

NextParserAny == ReturnEmpty \/ ParseLoop

SpecParserAny == InitParserAny /\ [][NextParserAny]_vars

(***************************************************************************)
(* BatchProcessor: createBatches                                           *)
(***************************************************************************)
\* longest file list handed to createBatches
MaxFiles == 4

\* array.join(sep)
RECURSIVE Join(_, _)
Join(parts, sep) ==
  IF parts = <<>> THEN <<>>
  ELSE IF Len(parts) = 1 THEN Head(parts)
  ELSE Head(parts) \o sep \o Join(Tail(parts), sep)

\* hunks.filter(h => h.lines.length > 0).map(h => h.lines.join("\n")).join("\n\n")
CombineHunksToContent(hunks) ==
  LET nonEmpty == SelectSeq(hunks, LAMBDA h : Len(h.lines) > 0)
      joined   == [i \in 1..Len(nonEmpty) |-> Join(nonEmpty[i].lines, <<"\n">>)]
  IN Join(joined, <<"\n", "\n">>)

\* Math.ceil(content.length / 3.5)
EstimateTokens(content) == (2 * Len(content) + 6) \div 7

\* !(!file.path || file.path === "/dev/null")
HasBatchablePath(file) == file.path # "" /\ file.path # "/dev/null"

\* a token check that never asks for a new batch
WouldExceedTokensNever(count, estimatedTokens, cap) == FALSE

\* currentTokenCount + estimatedTokens > this.maxTokensPerBatch
WouldExceedTokens(count, estimatedTokens, cap) == count + estimatedTokens > cap

\* a size check that never asks for a new batch
WouldExceedSizeNever(batch, cap) == FALSE

\* currentBatch.length >= this.maxBatchSize
WouldExceedSize(batch, cap) == Len(batch) >= cap

\* a push that loses the files of the batch
PushBatchDropping(bs, batch, count) == bs

\* batches.push({ files: [...currentBatch], totalEstimatedTokens: currentTokenCount })
PushBatch(bs, batch, count) ==
  Append(bs, [files |-> batch, totalEstimatedTokens |-> count])

\* the BatchFileContent built from a file; index is the file's place in the
\* input list (kept to tell equal files apart)
BatchFileContent(file, index) ==
  [path            |-> file.path,
   content         |-> CombineHunksToContent(file.hunks),
   estimatedTokens |-> EstimateTokens(CombineHunksToContent(file.hunks)),
   originalHunks   |-> file.hunks,
   index           |-> index]

\* for (const file of files): the file of this iteration
InLoop == batchPc = "loop" /\ fileNo <= Len(batchFiles)

BatchFrame ==
  /\ UNCHANGED <<maxBatchSize, maxTokensPerBatch, batchFiles>>
  /\ UNCHANGED <<invokerVars, resolverVars, parserVars, analysisVars>>

\* the limits ask for a new batch before this file
MustFlush(entry) ==
  /\ \/ WouldExceedTokens(currentTokenCount, entry.estimatedTokens, maxTokensPerBatch)
     \/ WouldExceedSize(currentBatch, maxBatchSize)
  /\ Len(currentBatch) > 0

\* an iteration that skips a file without a usable path
SkipFile ==
  /\ InLoop
  /\ ~HasBatchablePath(batchFiles[fileNo])
  /\ fileNo' = fileNo + 1
  /\ UNCHANGED <<batches, currentBatch, currentTokenCount, batchPc>>
  /\ BatchFrame

\* an iteration that adds the file to the current batch
AddToCurrentBatch ==
  /\ InLoop
  /\ HasBatchablePath(batchFiles[fileNo])
  /\ LET entry == BatchFileContent(batchFiles[fileNo], fileNo) IN
       /\ ~MustFlush(entry)
       /\ currentBatch' = Append(currentBatch, entry)
       /\ currentTokenCount' = currentTokenCount + entry.estimatedTokens
  /\ fileNo' = fileNo + 1
  /\ UNCHANGED <<batches, batchPc>>
  /\ BatchFrame

\* an iteration that closes the current batch and starts a new one with the file
StartNewBatch ==
  /\ InLoop
  /\ HasBatchablePath(batchFiles[fileNo])
  /\ LET entry == BatchFileContent(batchFiles[fileNo], fileNo) IN
       /\ MustFlush(entry)
       /\ batches' = PushBatch(batches, currentBatch, currentTokenCount)
       /\ currentBatch' = <<entry>>
       /\ currentTokenCount' = 0 + entry.estimatedTokens
  /\ fileNo' = fileNo + 1
  /\ UNCHANGED batchPc
  /\ BatchFrame

\* after the loop: the remaining files become the last batch; return batches
ReturnBatches ==
  /\ batchPc = "loop"
  /\ fileNo > Len(batchFiles)
  /\ batches' = IF Len(currentBatch) > 0
                  THEN PushBatch(batches, currentBatch, currentTokenCount)
                  ELSE batches
  /\ batchPc' = "returned"
  /\ UNCHANGED <<fileNo, currentBatch, currentTokenCount>>
  /\ BatchFrame

\* hunks of the files handed to createBatches: estimates 0, 1, 2 and 3 tokens
NoHunks == <<>>
OneLineHunk == <<[lines |-> <<<<"+", "a">>>>]>>
TwoLineHunk == <<[lines |-> <<<<"+", "a">>, <<" ", "a">>>>]>>
ThreeHunks ==
  <<[lines |-> <<<<"+", "a">>>>], [lines |-> <<>>],
    [lines |-> <<<<"-", "a">>, <<"+", "a">>>>]>>

\* the files a list is drawn from
FilePool ==
  { [path |-> "",          hunks |-> ThreeHunks],
    [path |-> "/dev/null", hunks |-> OneLineHunk],
    [path |-> "a",         hunks |-> NoHunks],
    [path |-> "a",         hunks |-> OneLineHunk],
    [path |-> "b",         hunks |-> TwoLineHunk],
    [path |-> "c",         hunks |-> ThreeHunks] }

\* constructor arguments: the default file cap and caps the lists reach
BatchSizes == {2, 10}
TokenCaps == {2, 4}

\* new BatchProcessor(maxBatchSize, maxTokensPerBatch).createBatches(files)
InitBatch ==
  /\ maxBatchSize \in BatchSizes
  /\ maxTokensPerBatch \in TokenCaps
  /\ batchFiles \in SeqsUpTo(FilePool, MaxFiles)
  /\ fileNo = 1
  /\ batches = <<>>
  /\ currentBatch = <<>>
  /\ currentTokenCount = 0
  /\ batchPc = "loop"
  /\ InvokerIdle
  /\ ResolverIdle
  /\ ParserIdle
  /\ AnalysisIdle

NextBatch == SkipFile \/ AddToCurrentBatch \/ StartNewBatch \/ ReturnBatches

SpecBatch == InitBatch /\ [][NextBatch]_vars

(***************************************************************************)
(* CodeAnalysisService: analyzeCodeChanges                                 *)
(***************************************************************************)
\* files.reduce((total, file) => total + file.hunks.length, 0)
RECURSIVE TotalHunks(_)
TotalHunks(fs) ==
  IF fs = <<>> THEN 0 ELSE Len(Head(fs).hunks) + TotalHunks(Tail(fs))

\* BatchProcessor.shouldUseBatching(files)
ShouldUseBatching(fs) == IF Len(fs) <= 2 THEN FALSE ELSE TotalHunks(fs) > 5

\* a filter that keeps every hunk
AllHunks(file) == file.hunks

\* file.hunks.filter((hunk) => hunk.lines.length > 0)
ValidHunks(file) == SelectSeq(file.hunks, LAMBDA hunk : Len(hunk.lines) > 0)

\* a fallback also for a batch whose suggestions give no comment
NeedsFallbackOnNoComments(outcome, batch) ==
  \/ outcome.kind = "throw"
  \/ CreateCommentsFromBatchResponse(batch.files, outcome.reviews) = <<>>

\* a fallback only for a batch call that throws
NeedsFallbackOnThrowOnly(outcome, batch) == outcome.kind = "throw"

\* analyzeBatchMode: the catch block, or aiResponses.length === 0 &&
\* batch.files.length > 0
NeedsFallback(outcome, batch) ==
  \/ outcome.kind = "throw"
  \/ Len(outcome.reviews) = 0 /\ Len(batch.files) > 0

\* comments put in front of the collected ones
PrependComments(all, new) == new \o all

\* allComments.push(...comments)
AppendComments(all, new) == all \o new

\* a settled call that is still counted as in flight
StillInFlight(n) == n

\* the awaited call has settled
AfterSettle(n) == n - 1

\* the comments of one call as they stand in the output; file is the place
\* of the comment's file in the input list and call the place in trace of
\* the call that produced the comment (neither is a field of the program's
\* comments)
TagComments(cs, fileOf, call) ==
  [k \in 1..Len(cs) |->
     [body |-> cs[k].body, path |-> cs[k].path, position |-> cs[k].position,
      file |-> fileOf[cs[k].file], hunk |-> cs[k].hunk, call |-> call]]

\* what reviewBatch / reviewSingle give back: a list of suggestions
\* (getAiResponse never throws) or an exception from building the prompt
Suggest(c) == [lineContent |-> <<"+", c>>, reviewComment |-> c]
\* a suggestion that quotes a line as a deleted line
SuggestDeleted(c) == [lineContent |-> <<"-", c>>, reviewComment |-> c]
AnalysisResponses ==
  { <<>>, <<Suggest("a")>>, <<Suggest("e")>>, <<Suggest("z")>>,
    <<SuggestDeleted("a"), Suggest("z")>>,
    <<Suggest("a"), Suggest("c")>>, <<Suggest("c"), Suggest("a")>>,
    <<Suggest("b"), Suggest("a")>> }
ReviewOutcomes ==
  {[kind |-> "throw", reviews |-> <<>>]}
    \cup {[kind |-> "list", reviews |-> r] : r \in AnalysisResponses}

\* the files given to analyzeCodeChanges: every hunk with a line of its own
HunkWith(c) == [lines |-> << <<"+", c>> >>]
EmptyHunk == [lines |-> <<>>]
FileOf(p, hs) == [path |-> p, hunks |-> hs]
AnalysisInputs ==
  { << FileOf("p1", <<HunkWith("a"), HunkWith("b")>>),
       FileOf("p2", <<HunkWith("c"), HunkWith("d")>>),
       FileOf("p3", <<HunkWith("e"), HunkWith("f")>>) >>,
    << FileOf("p1", <<HunkWith("a"), HunkWith("b")>>),
       FileOf("",   <<HunkWith("x")>>),
       FileOf("p2", <<HunkWith("c"), EmptyHunk, HunkWith("d")>>),
       FileOf("p3", <<EmptyHunk>>) >>,
    << FileOf("p1", <<HunkWith("a"), HunkWith("b")>>),
       FileOf("p2", <<HunkWith("c")>>) >>,
    << FileOf("/dev/null", <<HunkWith("a")>>),
       FileOf("p1", <<EmptyHunk>>),
       FileOf("p2", <<HunkWith("c")>>) >> }

\* analyzeCodeChanges(files) is called on a new service
InitAnalyze ==
  /\ analysisFiles \in AnalysisInputs
  /\ analysisPc = "start"
  /\ batchIndex = 1
  /\ individualFiles = <<>>
  /\ individualIndex = 1
  /\ allComments = <<>>
  /\ callsInFlight = 0
  /\ trace = <<>>
  /\ maxBatchSize \in BatchSizes
  /\ maxTokensPerBatch = 12000
  /\ batchFiles = <<>>
  /\ fileNo = 1
  /\ batches = <<>>
  /\ currentBatch = <<>>
  /\ currentTokenCount = 0
  /\ batchPc = "idle"
  /\ InvokerIdle
  /\ ResolverIdle
  /\ ParserIdle

AnalysisFrame == UNCHANGED <<invokerVars, resolverVars, parserVars>>

BatchVarsKept ==
  UNCHANGED <<maxBatchSize, maxTokensPerBatch, batchFiles, fileNo, batches,
              currentBatch, currentTokenCount, batchPc>>

\* analyzeCodeChanges -> analyzeBatchMode: createBatches(files) is called
AnalyzeBatchMode ==
  /\ analysisPc = "start"
  /\ ShouldUseBatching(analysisFiles)
  /\ analysisPc' = "batches"
  /\ batchFiles' = analysisFiles
  /\ batchPc' = "loop"
  /\ UNCHANGED <<maxBatchSize, maxTokensPerBatch, fileNo, batches,
                 currentBatch, currentTokenCount>>
  /\ UNCHANGED <<analysisFiles, batchIndex, individualFiles, individualIndex,
                 allComments, callsInFlight, trace>>
  /\ AnalysisFrame

\* analyzeCodeChanges -> analyzeIndividualMode -> processFilesIndividually
AnalyzeIndividualMode ==
  /\ analysisPc = "start"
  /\ ~ShouldUseBatching(analysisFiles)
  /\ analysisPc' = "files"
  /\ individualFiles' =
       [k \in 1..Len(analysisFiles) |->
          [path |-> analysisFiles[k].path, hunks |-> analysisFiles[k].hunks,
           index |-> k]]
  /\ individualIndex' = 1
  /\ UNCHANGED <<analysisFiles, batchIndex, allComments, callsInFlight, trace>>
  /\ BatchVarsKept /\ AnalysisFrame

\* the for loop of analyzeBatchMode runs once createBatches has returned
InBatchLoop == analysisPc = "batches" /\ batchPc = "returned"

\* await this.aiService.reviewBatch(batch, ...): the call is sent
SendBatch ==
  /\ InBatchLoop
  /\ batchIndex <= Len(batches)
  /\ analysisPc' = "batchCall"
  /\ callsInFlight' = callsInFlight + 1
  /\ UNCHANGED <<analysisFiles, batchIndex, individualFiles, individualIndex,
                 allComments, trace>>
  /\ BatchVarsKept /\ AnalysisFrame

\* an entry of trace: a settled batch call ("batch"), a file skipped by
\* processFilesIndividually ("skip"), a reviewSingle call sent for a file
\* with the number of hunks in its prompt ("file"), and that call settled
\* ("single"); reviews is what a settled call returned
Event(kind, batch, outcome, file, hunks, reviews) ==
  [kind |-> kind, batch |-> batch, outcome |-> outcome, file |-> file,
   hunks |-> hunks, reviews |-> reviews]

\* how an awaited reviewBatch or reviewSingle call ended, as written to trace
OutcomeName(outcome) ==
  IF outcome.kind = "throw" THEN "throw"
  ELSE IF Len(outcome.reviews) = 0 THEN "empty" ELSE "ok"

\* reviewBatch returned suggestions: their comments are pushed
BatchReviewed ==
  /\ analysisPc = "batchCall"
  /\ \E outcome \in ReviewOutcomes :
       LET thisBatch == batches[batchIndex]
           newComments == CreateCommentsFromBatchResponse(
                            thisBatch.files, outcome.reviews)
           fileOf == [k \in 1..Len(thisBatch.files) |-> thisBatch.files[k].index]
       IN /\ ~NeedsFallback(outcome, thisBatch)
          /\ allComments' = AppendComments(allComments,
                              TagComments(newComments, fileOf, Len(trace) + 1))
          /\ trace' = Append(trace, Event("batch", batchIndex,
                                           OutcomeName(outcome), 0, 0,
                                           outcome.reviews))
  /\ callsInFlight' = AfterSettle(callsInFlight)
  /\ batchIndex' = batchIndex + 1
  /\ analysisPc' = "batches"
  /\ UNCHANGED <<analysisFiles, individualFiles, individualIndex>>
  /\ BatchVarsKept /\ AnalysisFrame

\* reviewBatch returned nothing or threw: processFilesIndividually is
\* called with the files of the batch
BatchFallsBack ==
  /\ analysisPc = "batchCall"
  /\ \E outcome \in ReviewOutcomes :
       /\ NeedsFallback(outcome, batches[batchIndex])
       /\ trace' = Append(trace, Event("batch", batchIndex,
                                        OutcomeName(outcome), 0, 0,
                                        outcome.reviews))
  /\ callsInFlight' = AfterSettle(callsInFlight)
  /\ individualFiles' =
       [k \in 1..Len(batches[batchIndex].files) |->
          [path |-> batches[batchIndex].files[k].path,
           hunks |-> batches[batchIndex].files[k].originalHunks,
           index |-> batches[batchIndex].files[k].index]]
  /\ individualIndex' = 1
  /\ analysisPc' = "fallback"
  /\ UNCHANGED <<analysisFiles, batchIndex, allComments>>
  /\ BatchVarsKept /\ AnalysisFrame

\* processFilesIndividually is at a file (called for the whole input or for
\* the files of a batch)
AtIndividualFile ==
  /\ analysisPc \in {"files", "fallback"}
  /\ individualIndex <= Len(individualFiles)

\* the batch a file run belongs to, 0 in individual mode
RunBatch == IF analysisPc \in {"fallback", "fallbackCall"} THEN batchIndex ELSE 0

\* a file without a usable path or without a non-empty hunk: continue
SkipIndividualFile ==
  /\ AtIndividualFile
  /\ LET file == individualFiles[individualIndex] IN
       /\ ~HasBatchablePath(file) \/ ValidHunks(file) = <<>>
       /\ trace' = Append(trace, Event("skip", RunBatch, "none", file.index,
                                        0, <<>>))
  /\ individualIndex' = individualIndex + 1
  /\ UNCHANGED <<analysisFiles, analysisPc, batchIndex, individualFiles,
                 allComments, callsInFlight>>
  /\ BatchVarsKept /\ AnalysisFrame

\* processFileWithAllHunks: await this.aiService.reviewSingle(...) is sent
SendSingle ==
  /\ AtIndividualFile
  /\ LET file == individualFiles[individualIndex] IN
       /\ HasBatchablePath(file) /\ ValidHunks(file) # <<>>
       /\ trace' = Append(trace, Event("file", RunBatch, "sent", file.index,
                                        Len(ValidHunks(file)), <<>>))
  /\ callsInFlight' = callsInFlight + 1
  /\ analysisPc' = IF analysisPc = "fallback" THEN "fallbackCall" ELSE "fileCall"
  /\ UNCHANGED <<analysisFiles, batchIndex, individualFiles, individualIndex,
                 allComments>>
  /\ BatchVarsKept /\ AnalysisFrame

\* reviewSingle settles: the single-hunk or the multi-hunk resolver makes
\* the comments; an exception is logged and gives none
SingleReviewed ==
  /\ analysisPc \in {"fileCall", "fallbackCall"}
  /\ \E outcome \in ReviewOutcomes :
       LET file == individualFiles[individualIndex]
           validHunks == ValidHunks(file)
           newComments ==
             IF outcome.kind = "throw" THEN <<>>
             ELSE IF Len(validHunks) = 1
               THEN CreateCommentsFromAiResponses(
                      file.path, validHunks[1], outcome.reviews, 1, 1)
               ELSE CreateCommentsFromAiResponsesForMultipleHunks(
                      file.path, validHunks, outcome.reviews, 1)
       IN /\ allComments' = AppendComments(allComments,
                              TagComments(newComments, <<file.index>>, Len(trace)))
          /\ trace' = Append(trace, Event("single", RunBatch,
                                           OutcomeName(outcome), file.index, 0,
                                           outcome.reviews))
  /\ callsInFlight' = AfterSettle(callsInFlight)
  /\ individualIndex' = individualIndex + 1
  /\ analysisPc' = IF analysisPc = "fallbackCall" THEN "fallback" ELSE "files"
  /\ UNCHANGED <<analysisFiles, batchIndex, individualFiles>>
  /\ BatchVarsKept /\ AnalysisFrame

\* processFilesIndividually returns to analyzeBatchMode: the next batch
FallbackReturns ==
  /\ analysisPc = "fallback"
  /\ individualIndex > Len(individualFiles)
  /\ batchIndex' = batchIndex + 1
  /\ analysisPc' = "batches"
  /\ UNCHANGED <<analysisFiles, individualFiles, individualIndex, allComments,
                 callsInFlight, trace>>
  /\ BatchVarsKept /\ AnalysisFrame

\* return allComments, from analyzeBatchMode or processFilesIndividually
AnalysisReturns ==
  /\ \/ InBatchLoop /\ batchIndex > Len(batches)
     \/ analysisPc = "files" /\ individualIndex > Len(individualFiles)
  /\ analysisPc' = "done"
  /\ UNCHANGED <<analysisFiles, batchIndex, individualFiles, individualIndex,
                 allComments, callsInFlight, trace>>
  /\ BatchVarsKept /\ AnalysisFrame

NextAnalyze ==
  \/ AnalyzeBatchMode \/ AnalyzeIndividualMode
  \/ SkipFile \/ AddToCurrentBatch \/ StartNewBatch \/ ReturnBatches
  \/ SendBatch \/ BatchFallsBack \/ BatchReviewed
  \/ SkipIndividualFile \/ SendSingle \/ SingleReviewed
  \/ FallbackReturns \/ AnalysisReturns

SpecAnalyze == InitAnalyze /\ [][NextAnalyze]_vars

\* the same with the scheduling of the event loop: every awaited promise
\* settles and the continuation after an await is run
SpecAnalyzeFair == SpecAnalyze /\ WF_vars(NextAnalyze)

(***************************************************************************)
(* Properties of the parser                                                *)
(***************************************************************************)
\* parseDiff has returned files
ParseFinished == lineNo > Len(input)

\* the hunks of the result: <<file index, chunk index>>
AllChunkRefs ==
  UNION {{<<f, c>> : c \in 1..Len(files[f].chunks)} : f \in 1..Len(files)}

ChunkAt(r) == files[r[1]].chunks[r[2]]

\* the changes of a hunk that have one of the types, in order
ChangesOfTypes(chunk, types) ==
  SelectSeq(chunk.changes, LAMBDA ch : ch.type \in types)

\* the old / new line number a change carries
OldLineNumber(ch) == IF ch.type = "normal" THEN ch.ln1 ELSE ch.ln
NewLineNumber(ch) == IF ch.type = "normal" THEN ch.ln2 ELSE ch.ln

\* C5: for a valid diff, hunks with a no-newline marker included, every
\* parsed hunk has oldLines equal to the number of its changes of type del
\* or normal and newLines equal to the number of its changes of type add
\* or normal.
C5_LineAccounting ==
  ParseFinished =>
    \A r \in AllChunkRefs :
      /\ ChunkAt(r).oldLines = Len(ChangesOfTypes(ChunkAt(r), {"del", "normal"}))
      /\ ChunkAt(r).newLines = Len(ChangesOfTypes(ChunkAt(r), {"add", "normal"}))

\* C6: in every parsed hunk the old line numbers of the successive del and
\* normal changes are oldStart, oldStart + 1, ... and the new line numbers
\* of the successive add and normal changes are newStart, newStart + 1, ...
C6_LineNumbersIncreaseByOne ==
  ParseFinished =>
    \A r \in AllChunkRefs :
      LET olds == ChangesOfTypes(ChunkAt(r), {"del", "normal"})
          news == ChangesOfTypes(ChunkAt(r), {"add", "normal"})
      IN /\ \A i \in 1..Len(olds) :
              OldLineNumber(olds[i]) = ChunkAt(r).oldStart + i - 1
         /\ \A i \in 1..Len(news) :
              NewLineNumber(news[i]) = ChunkAt(r).newStart + i - 1

(***************************************************************************)
(* Properties of the resolvers                                             *)
(***************************************************************************)
\* the hunk a comment's position was computed in
HunkAt(c) == rBatch[c.file].originalHunks[c.hunk]

\* a hunk line that stands for an added line
IsAdditionLine(line) == line # <<>> /\ Head(line) = "+"

\* C3: whenever a resolver form (single-hunk, multi-hunk, batch) returns a
\* position, the hunk line at that position is an addition line, and the
\* suggestion's normalized text is the normalized text of some addition
\* line of that hunk.
C3_OnlyAdditionLinesAnchored ==
  \A i \in 1..Len(comments) :
    LET c == comments[i]
        lines == HunkAt(c).lines
    IN /\ c.position \in 1..Len(lines)
       /\ IsAdditionLine(lines[c.position])
       /\ \E k \in 1..Len(lines), r \in 1..Len(aiResponses) :
            /\ IsAdditionLine(lines[k])
            /\ Normalize(lines[k]) = Normalize(aiResponses[r].lineContent)

\* the first character of s that is not white space is "+"
PlusAfterTrim(s) ==
  \E i \in 1..Len(s) : s[i] = "+" /\ \A j \in 1..(i - 1) : IsWs(s[j])

\* C4: in all three resolver forms a suggestion whose lineContent is empty
\* or does not start with "+" after trimming produces no comment: there are
\* at most as many comments as suggestions that start with "+" after
\* trimming, whatever context or deletion lines the hunks hold.
C4_DeletionContextImmunity ==
  rForm # "none" =>
    Len(comments) <= Len(SelectSeq(aiResponses,
                                   LAMBDA r : PlusAfterTrim(r.lineContent)))

\* the batch resolver was given the exact text of a context line of the
\* first hunk and returned nothing
C4_Witness ==
  /\ rForm = "batch"
  /\ aiResponses[1].lineContent = <<" ", "a">>
  /\ \E k \in 1..Len(rBatch[1].originalHunks[1].lines) :
       rBatch[1].originalHunks[1].lines[k] = <<" ", "a">>
  /\ comments = <<>>

(***************************************************************************)
(* Properties of the invoker                                               *)
(***************************************************************************)
\* position of a model in the tier ordering (this.modelHierarchy)
TierIndex(m) == IndexOf(modelHierarchy, m)

\* the tier table holds a tier with a higher requests-per-minute budget
HasLessLimitedTier(m) ==
  \E i \in 1..Len(rpmLimits) : rpmLimits[i].rpm > RpmOf(m)

\* C1: when the tier table holds a tier with a higher requests-per-minute
\* budget than the current one, a 429 failure on the first attempt of a
\* request switches the invoker to a tier with a higher budget, recomputes
\* the inter-request interval from that tier and retries.
C1_DowngradeTowardLessLimitedTier ==
  [][ ( /\ pc = "inflight"
        /\ retryCount = 0
        /\ lastStatus' = 429
        /\ HasRpm(currentModelName)
        /\ HasLessLimitedTier(currentModelName) )
      => ( /\ RpmOf(currentModelName') > RpmOf(currentModelName)
           /\ rateLimitDelay' = UpdateRateLimitDelay(currentModelName')
           /\ rateLimitDelay' < rateLimitDelay
           /\ pc' = "gate" ) ]_vars

\* C2: the position of the current model in the tier ordering never moves
\* back: the models of successive external calls have non-decreasing
\* positions, the current model is never before the model of the last call,
\* and after a switch between two calls no later call uses a model that was
\* used before the switch.
C2_DegradationMonotone ==
  /\ \A i, j \in 1..Len(calls) :
       i < j => TierIndex(calls[i].model) <= TierIndex(calls[j].model)
  /\ calls # <<>> =>
       TierIndex(calls[Len(calls)].model) <= TierIndex(currentModelName)
  /\ \A i, j \in 1..Len(calls) :
       (i < j /\ i < Len(calls) /\ calls[i].model # calls[i + 1].model)
         => \A k \in 1..i : calls[j].model # calls[k].model

\* a downgrade happened in the first request and a later request called
\* the model with the tier reached by it
C2_Witness ==
  /\ Len(calls) >= 3
  /\ calls[1].model # calls[2].model
  /\ calls[Len(calls)].req = 2
  /\ calls[Len(calls)].model = calls[2].model

\* C9: getAiResponse never throws: whatever the external call does, the
\* caller gets a list, and when the retries are exhausted (a 429 failure
\* with retryCount = maxRetries) the list is empty.
C9_NeverThrows ==
  /\ result.kind \in {"pending", "list"}
  /\ pc = "done" => result.kind = "list"
  /\ (pc = "done" /\ lastStatus # NoError) => result = ListResult(<<>>)
  /\ (pc = "done" /\ lastStatus = 429) => retryCount = maxRetries

\* a request that failed with 429 on every attempt has returned
C9_Witness ==
  /\ pc = "done"
  /\ lastStatus = 429
  /\ retryCount = maxRetries
  /\ Len(backoffs) >= 2
  /\ result = ListResult(<<>>)

\* C10: a failure with a 5xx status below the attempt cap is retried after
\* the backoff delay, like a 429 failure.
C10_ServerErrorRetried ==
  [][ ( /\ pc = "inflight"
        /\ lastStatus' \in {500, 503}
        /\ retryCount < maxRetries )
      => ( /\ pc' = "gate"
           /\ retryCount' = retryCount + 1
           /\ backoffs' = Append(backoffs, BackoffDelay(retryCount)) ) ]_vars

(***************************************************************************)
(* Properties of createBatches                                             *)
(***************************************************************************)
\* createBatches has returned batches
BatchesReturned == batchPc = "returned"

\* the files of the batches, concatenated in batch order
RECURSIVE FilesOfBatches(_)
FilesOfBatches(bs) ==
  IF bs = <<>> THEN <<>> ELSE Head(bs).files \o FilesOfBatches(Tail(bs))

\* the places in the input list of the files of the batches
IndicesOf(entries) == [k \in 1..Len(entries) |-> entries[k].index]

\* the places of the input list, in order
InputIndices == [i \in 1..Len(batchFiles) |-> i]

\* the places of the files the loop does not skip, in order
BatchableIndices ==
  SelectSeq(InputIndices, LAMBDA i : HasBatchablePath(batchFiles[i]))

\* every entry carries the path and all the hunks of the input file it is for
EntriesCarryTheirFile(entries) ==
  \A k \in 1..Len(entries) :
    /\ entries[k].index \in 1..Len(batchFiles)
    /\ entries[k].path = batchFiles[entries[k].index].path
    /\ entries[k].originalHunks = batchFiles[entries[k].index].hunks

\* the sum of the estimates of the files of a batch
RECURSIVE SumTokens(_)
SumTokens(entries) ==
  IF entries = <<>> THEN 0
  ELSE Head(entries).estimatedTokens + SumTokens(Tail(entries))

\* the input file at place i is estimated above the cap
Oversized(i) ==
  EstimateTokens(CombineHunksToContent(batchFiles[i].hunks)) > maxTokensPerBatch

\* the input file at place i is the only file of some batch, with all its hunks
AloneInABatch(i) ==
  \E b \in 1..Len(batches) :
    batches[b].files = <<BatchFileContent(batchFiles[i], i)>>

\* no batch with more than one file is above the token cap
CapRespected ==
  \A b \in 1..Len(batches) :
    /\ batches[b].totalEstimatedTokens = SumTokens(batches[b].files)
    /\ \/ Len(batches[b].files) = 1
       \/ batches[b].totalEstimatedTokens <= maxTokensPerBatch

\* C7 (as stated): for every input file list, the files of the returned
\* batches, concatenated in batch order, are the input file list itself, in
\* the same order, with no file duplicated and no file dropped.
C7_BatchingConservation ==
  BatchesReturned =>
    /\ IndicesOf(FilesOfBatches(batches)) = InputIndices
    /\ EntriesCarryTheirFile(FilesOfBatches(batches))

\* C7 (amended): the files of the returned batches, concatenated in batch
\* order, are the input files whose path is neither empty nor "/dev/null",
\* in input order, none duplicated and none of them dropped.
C7_BatchingConservationOfBatchableFiles ==
  BatchesReturned =>
    /\ IndicesOf(FilesOfBatches(batches)) = BatchableIndices
    /\ EntriesCarryTheirFile(FilesOfBatches(batches))

\* createBatches returned several batches, one of them with two files, from a
\* list in which a file without a usable path stands before a batched file
C7_Witness ==
  /\ BatchesReturned
  /\ Len(batches) >= 2
  /\ \E b \in 1..Len(batches) : Len(batches[b].files) = 2
  /\ \E i, j \in 1..Len(batchFiles) :
       i < j /\ ~HasBatchablePath(batchFiles[i]) /\ HasBatchablePath(batchFiles[j])

\* C8 (as stated): every returned batch has exactly one file or a
\* totalEstimatedTokens of at most maxTokensPerBatch, and every input file
\* whose own estimate exceeds the cap is alone in a batch of its own, whole.
C8_TokenCapRespect ==
  BatchesReturned =>
    /\ CapRespected
    /\ \A i \in 1..Len(batchFiles) : Oversized(i) => AloneInABatch(i)

\* C8 (amended): every returned batch has exactly one file or a
\* totalEstimatedTokens of at most maxTokensPerBatch, and every input file
\* with a path that is neither empty nor "/dev/null" whose own estimate
\* exceeds the cap is alone in a batch of its own, whole.
C8_TokenCapRespectOfBatchableFiles ==
  BatchesReturned =>
    /\ CapRespected
    /\ \A i \in 1..Len(batchFiles) :
         (HasBatchablePath(batchFiles[i]) /\ Oversized(i)) => AloneInABatch(i)

\* createBatches returned a file above the cap alone, between a batch before
\* it and a batch after it
C8_Witness ==
  /\ BatchesReturned
  /\ Len(batches) = 3
  /\ Len(batches[2].files) = 1
  /\ batches[2].totalEstimatedTokens > maxTokensPerBatch
  /\ Oversized(batches[2].files[1].index)

(***************************************************************************)
(* Properties of the retries of getAiResponse                              *)
(***************************************************************************)
\* the catch block switches the tier in this step
DowngradeStep == pc = "inflight" /\ currentModelName' # currentModelName

\* the calls of the current request
CallsOfRequest == SelectSeq(calls, LAMBDA c : c.req = reqNo)

\* the current request has called two different models
DowngradedInRequest ==
  \E i, j \in 1..Len(CallsOfRequest) :
    CallsOfRequest[i].model # CallsOfRequest[j].model

IsIntervalOf(d, model) ==
  /\ d * RpmOf(model) >= 60000
  /\ (d - 1) * RpmOf(model) < 60000

\* C12: every external call, retries included, is sent by the step that
\* passes enforceRateLimit, and the gate timestamps of two consecutive
\* external calls differ by at least ceil(60000 / rpm) of the tier selected
\* at the later call.
C12_RateGate ==
  /\ [][ (pc' = "inflight" /\ pc # "inflight")
         => ( /\ pc = "gate"
              /\ Len(calls') = Len(calls) + 1
              /\ lastRequestTime' = calls'[Len(calls')].time
              /\ lastRequestTime' = now'
              /\ calls'[Len(calls')].model = currentModelName ) ]_vars
  /\ [](\A j \in 1..Len(calls) :
          /\ IsIntervalOf(calls[j].delay, calls[j].model)
          /\ j > 1 => calls[j].time - calls[j - 1].time >= calls[j].delay)

\* three calls: a retry on a new tier that the gate held back for exactly
\* that tier's interval, and a call that came later than its interval
C12_Witness ==
  /\ Len(calls) >= 3
  /\ \E j \in 2..Len(calls) :
       /\ calls[j].model # calls[j - 1].model
       /\ calls[j].time - calls[j - 1].time = calls[j].delay
  /\ \E k \in 2..Len(calls) :
       calls[k].time - calls[k - 1].time > calls[k].delay

\* statuses that are neither rate-limit-class nor transient-server-class
NonRetryableStatuses == {s \in ErrorStatuses : s # 429 /\ ~(s \in 500..599)}

\* the last external call of the log belongs to the running attempt
LastCallIsThisAttempt ==
  /\ calls # <<>>
  /\ calls[Len(calls)].req = reqNo
  /\ calls[Len(calls)].attempt = retryCount

\* C18: an external call that fails with an error that is neither
\* rate-limit-class nor transient-server-class ends the request in the same
\* step: getAiResponse returns the empty list without a wait, without a tier
\* change and without another external call for the request.
C18_NonRetryableEndsRequest ==
  /\ [][ (pc = "inflight" /\ lastStatus' \in NonRetryableStatuses)
         => ( /\ pc' = "done"
              /\ result' = ListResult(<<>>)
              /\ (now' - now) \in CallLatencies
              /\ currentModelName' = currentModelName
              /\ rateLimitDelay' = rateLimitDelay
              /\ retryCount' = retryCount
              /\ backoffs' = backoffs
              /\ calls' = calls ) ]_vars
  /\ []((pc = "done" /\ lastStatus \in NonRetryableStatuses)
          => (LastCallIsThisAttempt /\ result = ListResult(<<>>)))

\* a retry of a request failed with status 400 and the request returned
C18_Witness ==
  /\ pc = "done"
  /\ lastStatus = 400
  /\ retryCount >= 1
  /\ result = ListResult(<<>>)

\* the entries with a non-empty lineContent and a non-empty reviewComment,
\* in payload order
RECURSIVE CompleteEntries(_)
CompleteEntries(reviews) ==
  IF reviews = <<>> THEN <<>>
  ELSE (IF Head(reviews).lineContent # "" /\ Head(reviews).reviewComment # ""
          THEN <<Head(reviews)>> ELSE <<>>) \o CompleteEntries(Tail(reviews))

TierChangesInRequest ==
  Cardinality({i \in 2..Len(CallsOfRequest) :
                 CallsOfRequest[i].model # CallsOfRequest[i - 1].model})

\* C20: every request that was started returns, after at most
\* maxRetries + 1 = 4 external calls, at most one of them after a tier
\* downgrade, and every retry that is not a downgrade retry waits
\* min(1000 * 2^n, 30000) ms first, n being the retry counter of the failed
\* attempt.
C20_BoundedCalls ==
  /\ (pc \in {"gate", "inflight"}) ~> (pc = "done")
  /\ [](/\ Len(CallsOfRequest) <= maxRetries + 1
        /\ Len(CallsOfRequest) <= 4
        /\ TierChangesInRequest <= 1
        /\ \A i \in 1..Len(CallsOfRequest) : CallsOfRequest[i].attempt = i - 1)
  /\ [][ (pc = "inflight" /\ pc' = "gate" /\ ~DowngradeStep)
         => \E d \in CallLatencies :
              /\ now' = now + d + Min(1000 * Pow2(retryCount), 30000)
              /\ backoffs' = Append(backoffs, Min(1000 * Pow2(retryCount), 30000))
              /\ retryCount' = retryCount + 1 ]_vars

\* a request made four calls, one after a downgrade, and slept 2000 ms and
\* 4000 ms before the last two
C20_Witness ==
  /\ Len(CallsOfRequest) = maxRetries + 1
  /\ TierChangesInRequest = 1
  /\ backoffs = <<2000, 4000>>

\* C15: every comment {path, position, body} has a hunk of the file at path
\* with 1 <= position <= number of lines of the hunk, whose line at position
\* equals the lineContent of the suggestion with that body after both are
\* trimmed and have their white-space runs collapsed, and none of whose
\* earlier lines matches; in the scenario hunk (-old, +new1, +new2, context)
\* "+new2" resolves to position 3 and "+nonexistent" is not found.
C15_PositionFromRealHunkContent ==
  /\ \A i \in 1..Len(comments) :
       \E f \in 1..Len(rBatch), r \in 1..Len(aiResponses) :
         /\ rBatch[f].path = comments[i].path
         /\ aiResponses[r].reviewComment = comments[i].body
         /\ \E h \in 1..Len(rBatch[f].originalHunks) :
              LET lines == rBatch[f].originalHunks[h].lines
                  wanted == CollapseWs(Trim(aiResponses[r].lineContent))
              IN /\ 1 <= comments[i].position
                 /\ comments[i].position <= Len(lines)
                 /\ CollapseWs(Trim(lines[comments[i].position])) = wanted
                 /\ \A k \in 1..(comments[i].position - 1) :
                      CollapseWs(Trim(lines[k])) # wanted
  /\ (rForm # "none" /\ rBatch = ScenarioBatch /\ aiResponses = <<SuggestNew2>>)
       => (Len(comments) = 1 /\ comments[1].position = 3 /\ comments[1].path = "f1")
  /\ (rForm # "none" /\ rBatch = ScenarioBatch /\ aiResponses = <<SuggestNonexistent>>)
       => comments = <<>>

\* the single-hunk resolver anchored "+new2" at position 3 of the scenario hunk
C15_Witness ==
  /\ rForm = "single"
  /\ rBatch = ScenarioBatch
  /\ aiResponses = <<SuggestNew2>>
  /\ Len(comments) = 1
  /\ comments[1].position = 3

(***************************************************************************)
(* Properties of the parser on any input                                   *)
(***************************************************************************)
\* the line the loop is at matches no pattern of the current mode: in header
\* mode a line that is no header line, in content mode a line that is not
\* the marker and starts with none of "-", "+" and white space
Unmatched ==
  /\ HasLine
  /\ ~BlankInput(input)
  /\ IF currentFileChanges.set
       THEN /\ Line.tag # "eof"
            /\ \/ Raw(Line) = <<>>
               \/ Head(Raw(Line)) \notin {"-", "+", " ", "\t"}
       ELSE Line.tag = "text"

\* C16: parseDiff is total: on every input every line is taken by a step of
\* the parser until the list of files is returned; empty and
\* white-space-only input return the empty list; a line that matches no
\* handler of the current mode is skipped without a change to any file or
\* hunk.
C16_ParserTotal ==
  /\ [](~ParseFinished => ENABLED NextParserAny)
  /\ []((ParseFinished /\ BlankInput(input)) => files = <<>>)
  /\ [](\A f \in 1..Len(files) :
          /\ files[f].deletions >= 0
          /\ files[f].additions >= 0
          /\ \A c \in 1..Len(files[f].chunks) :
               \A k \in 1..Len(files[f].chunks[c].changes) :
                 files[f].chunks[c].changes[k].type \in ChangeTypes)
  /\ [][ Unmatched
         => ( /\ files' = files
              /\ currentChunk' = currentChunk
              /\ lineNo' = lineNo + 1 ) ]_vars

\* an input that is no diff was parsed to the end: a hunk header without a
\* file, a line that matches nothing in content mode, then an added line
C16_Witness ==
  /\ ParseFinished
  /\ input = <<ChunkLine(1, 0, 1, 2), TextLine(<<"a">>), TextLine(<<"+", "a">>)>>
  /\ Len(files) = 1
  /\ Len(files[1].chunks[1].changes) = 1

(***************************************************************************)
(* Properties of analyzeCodeChanges                                        *)
(***************************************************************************)
\* the places in trace of the events of one kind for a batch
BatchEvents(b) ==
  {i \in DOMAIN trace : trace[i].kind = "batch" /\ trace[i].batch = b}

\* the places in trace where file f of the input was handed to the
\* single-file path on behalf of batch b
FileRuns(b, f) ==
  {i \in DOMAIN trace :
     trace[i].kind \in {"file", "skip"} /\ trace[i].batch = b /\ trace[i].file = f}

\* the batch whose reviewBatch call ended with no suggestions or threw
BatchFailed(b) ==
  \E i \in BatchEvents(b) : trace[i].outcome \in {"empty", "throw"}

\* every file of batch b went through the single-file path exactly once,
\* after the batch call, and was sent to the model when it has a hunk
\* with lines
RerunOnce(b) ==
  \A k \in 1..Len(batches[b].files) :
    LET f == batches[b].files[k].index
    IN /\ Cardinality(FileRuns(b, f)) = 1
       /\ \A i \in FileRuns(b, f) :
            /\ \A j \in BatchEvents(b) : j < i
            /\ trace[i].kind = "file" <=> ValidHunks(analysisFiles[f]) # <<>>

\* the output only grows at its end
CommentsAppended ==
  /\ Len(allComments') >= Len(allComments)
  /\ SubSeq(allComments', 1, Len(allComments)) = allComments

\* C13: in batch mode, every batch whose reviewBatch call returns zero
\* suggestions or throws has each of its files run exactly once through the
\* single-file path (and a batch that returned suggestions has none), the
\* comments are appended to the output, every batch of the run is called
\* once and in batch order, and the run always comes to its return
C13_BatchFallback ==
  /\ [][CommentsAppended]_vars
  /\ <>(analysisPc = "done")
  /\ []((analysisPc = "done" /\ batchPc = "returned") =>
          \A b \in 1..Len(batches) :
            /\ Cardinality(BatchEvents(b)) = 1
            /\ \A c \in 1..(b - 1) :
                 \A i \in BatchEvents(c), j \in BatchEvents(b) : i < j
            /\ IF BatchFailed(b)
                 THEN RerunOnce(b)
                 ELSE \A k \in 1..Len(batches[b].files) :
                        FileRuns(b, batches[b].files[k].index) = {})

\* a run of two batches whose first batch failed, whose files were re-run
\* with a comment from the fallback, and whose second batch was processed
C13_Witness ==
  /\ analysisPc = "done"
  /\ Len(batches) = 2
  /\ BatchFailed(1)
  /\ \E i \in BatchEvents(1) : trace[i].outcome = "throw"
  /\ \E k \in DOMAIN allComments :
       allComments[k].file = 1 /\ trace[allComments[k].call].kind = "file"
  /\ \E k \in DOMAIN allComments :
       trace[allComments[k].call].kind = "batch" /\ trace[allComments[k].call].batch = 2

\* the (file, hunk) of c1 does not come after the (file, hunk) of c2
AnchorNotAfter(c1, c2) ==
  \/ c1.file < c2.file
  \/ c1.file = c2.file /\ c1.hunk <= c2.hunk

\* C14 as stated: a comment that precedes another in the output is anchored
\* to a (file, hunk) that does not come after the other's in the input diff
C14_OutputOrderedLikeDiff ==
  \A i, j \in DOMAIN allComments :
    i < j => AnchorNotAfter(allComments[i], allComments[j])

\* C14: the output is ordered by external call, and the comments of
\* different calls are in diff order: a comment of an earlier call is
\* anchored to an earlier file than a comment of a later call (the comments
\* of one call stand in the order of the model's suggestions)
C14_OutputOrderedByCall ==
  \A i, j \in DOMAIN allComments :
    i < j =>
      /\ allComments[i].call <= allComments[j].call
      /\ allComments[i].call < allComments[j].call =>
           allComments[i].file < allComments[j].file

\* a finished run with comments of two calls, one of which gave two
\* comments against the diff order
C14_Witness ==
  /\ analysisPc = "done"
  /\ \E i, j \in DOMAIN allComments :
       /\ i < j
       /\ allComments[i].call = allComments[j].call
       /\ ~AnchorNotAfter(allComments[i], allComments[j])
  /\ \E i, j \in DOMAIN allComments : allComments[i].call < allComments[j].call

\* a call is started only when none is in flight
StartsWhenNoneInFlight == callsInFlight' > callsInFlight => callsInFlight = 0

\* C17: at most one external model call of a run of analyzeCodeChanges is
\* in flight at any time, in batch mode, in the fallback and in individual
\* mode, and a call is started only after the previous one has settled
C17_ExternalCallsSerialized ==
  /\ [](callsInFlight \in {0, 1})
  /\ [](callsInFlight = 1 <=> analysisPc \in {"batchCall", "fileCall", "fallbackCall"})
  /\ [][StartsWhenNoneInFlight]_vars

\* a file call of the fallback is in flight, after the batch call settled
C17_Witness ==
  /\ analysisPc = "fallbackCall"
  /\ callsInFlight = 1
  /\ \E i \in DOMAIN trace : trace[i].kind = "batch"

(***************************************************************************)
(* Properties of the parser's handlers                                     *)
(***************************************************************************)
\* the changes of the current hunk in a list of files
CurrentChanges(fs) ==
  IF currentChunk = NullChunk THEN <<>>
  ELSE fs[currentChunk[1]].chunks[currentChunk[2]].changes

\* the line the loop is at is the no-newline marker
AtMarker == HasLine /\ Line.tag = "eof"

\* C21: a no-newline-at-end-of-file marker line never creates a new change:
\* the step that consumes the marker leaves the number of changes of the
\* current hunk as it was, and changes at most the text of the last change
C21_MarkerAddsNoChange ==
  [][ AtMarker =>
        /\ Len(CurrentChanges(files')) = Len(CurrentChanges(files))
        /\ \A k \in 1..(Len(CurrentChanges(files)) - 1) :
             CurrentChanges(files')[k] = CurrentChanges(files)[k] ]_vars

\* the handler parseLine gives the line the loop is at
LineHandler ==
  IF HasLine /\ ~BlankInput(input) THEN Handler(Line, currentFileChanges)
  ELSE "none"

\* the budgets after a step are the budgets before it less the given amounts
BudgetsLess(o, n) ==
  /\ currentFileChanges'.oldLines = currentFileChanges.oldLines - o
  /\ currentFileChanges'.newLines = currentFileChanges.newLines - n

\* C22: the parser is in content mode exactly while the remaining-old or the
\* remaining-new budget of the current hunk is non-zero; a hunk header sets
\* the budgets to its counts (1 for a count left out), a deletion, addition
\* or context line takes one from the matching budget(s), and once both
\* budgets are zero the next line is parsed in header mode, also for a hunk
\* header with both counts 0 and for a body with more lines of one kind than
\* the header announces
C22_ModeSwitching ==
  /\ [](currentFileChanges.set <=>
          (currentFileChanges.oldLines # 0 \/ currentFileChanges.newLines # 0))
  /\ [][ /\ LineHandler = "chunk" =>
              /\ currentFileChanges'.oldLines = ToNumOfLines(Line.oldNumLines)
              /\ currentFileChanges'.newLines = ToNumOfLines(Line.newNumLines)
         /\ LineHandler = "del" => BudgetsLess(1, 0)
         /\ LineHandler = "add" => BudgetsLess(0, 1)
         /\ LineHandler = "normal" => BudgetsLess(1, 1) ]_vars

\* the hunk headers of the hunks of a file, in order
ChunkHeaders(file) == [c \in 1..Len(file.chunks) |-> file.chunks[c].content]

\* the handlers of the file-level metadata lines (mode, index, ---, +++)
MetadataHandlers ==
  {"newFile", "deletedFile", "oldMode", "newMode", "index", "fromFile", "toFile"}

\* the files before the step stay in place with their hunks in place: files
\* are added at the end only, and hunks at the end of a file only
FilesAndHunksKeepOrder ==
  /\ Len(files') >= Len(files)
  /\ \A f \in 1..Len(files) :
       /\ Len(files'[f].chunks) >= Len(files[f].chunks)
       /\ SubSeq(ChunkHeaders(files'[f]), 1, Len(files[f].chunks))
            = ChunkHeaders(files[f])

\* the number of hunks of all files
RECURSIVE CountChunks(_)
CountChunks(fs) ==
  IF fs = <<>> THEN 0 ELSE Len(Head(fs).chunks) + CountChunks(Tail(fs))

\* C23: every parsed hunk is appended to exactly one file, the file that is
\* current when its header is read; a hunk header read before any file-start
\* marker opens a synthetic file with empty from and to paths; a file-level
\* metadata line read in header mode modifies no hunk and, when the current
\* file has hunks, opens a new file and leaves the current one as it is;
\* files and hunks stand in the result in input order
C23_HunkOwnership ==
  [][ /\ FilesAndHunksKeepOrder
      /\ LineHandler = "chunk" =>
           /\ CountChunks(files') = CountChunks(files) + 1
           /\ files'[Len(files')].chunks[Len(files'[Len(files')].chunks)].content
                = Line
           /\ files # <<>> => Len(files') = Len(files)
           /\ files = <<>> =>
                /\ Len(files') = 1
                /\ files'[1].from = ""
                /\ files'[1].to = ""
      /\ LineHandler # "chunk" => CountChunks(files') = CountChunks(files)
      /\ LineHandler \in MetadataHandlers =>
           /\ \A f \in 1..Len(files) : files'[f].chunks = files[f].chunks
           /\ (files # <<>> /\ files[Len(files)].chunks # <<>>) =>
                /\ Len(files') = Len(files) + 1
                /\ SubSeq(files', 1, Len(files)) = files ]_vars

(***************************************************************************)
(* Properties of the resolvers: which match is taken                       *)
(***************************************************************************)
\* the places of the lines of a hunk that equal the candidate after both
\* are trimmed and have their white-space runs collapsed
MatchingLines(hunk, lineContent) ==
  {k \in 1..Len(hunk.lines) :
     CollapseWs(Trim(hunk.lines[k])) = CollapseWs(Trim(lineContent))}

\* the places of the hunks of a list that hold a matching line
MatchingHunks(hunks, lineContent) ==
  {h \in 1..Len(hunks) : MatchingLines(hunks[h], lineContent) # {}}

\* the least element of a non-empty set of numbers
Least(S) == CHOOSE n \in S : \A m \in S : n <= m

\* the suggestions of the call that start with "+" after trimming and have
\* a matching line in one of the hunks, in the order of the call
AnchoredIn(hunks) ==
  SelectSeq(aiResponses,
            LAMBDA r : /\ PlusAfterTrim(r.lineContent)
                       /\ MatchingHunks(hunks, r.lineContent) # {})

\* C24: the multi-hunk resolver attributes a suggestion to the first hunk,
\* in original order, that holds a line equal to the candidate after
\* normalization, with the 1-based index of the first such line inside that
\* hunk as position; later hunks with the same line are never chosen
C24_MultiHunkFirstMatch ==
  rForm = "multi" =>
    LET hunks == rBatch[1].originalHunks
        anchored == AnchoredIn(hunks)
    IN /\ Len(comments) = Len(anchored)
       /\ \A i \in 1..Len(comments) :
            LET first == Least(MatchingHunks(hunks, anchored[i].lineContent))
            IN /\ comments[i].hunk = first
               /\ comments[i].position =
                    Least(MatchingLines(hunks[first], anchored[i].lineContent))
               /\ comments[i].path = rBatch[1].path

\* both hunks of the file hold the suggested line and the comment went to
\* the first one
C24_Witness ==
  /\ rForm = "multi"
  /\ Len(comments) = 1
  /\ MatchingHunks(rBatch[1].originalHunks, aiResponses[1].lineContent) = {1, 2}
  /\ comments[1].hunk = 1
  /\ comments[1].position = 1

(***************************************************************************)
(* Properties of createBatches: the shape of the batches                   *)
(***************************************************************************)
\* the estimate of the file the loop is at
EstimateOfFile == EstimateTokens(CombineHunksToContent(batchFiles[fileNo].hunks))

\* adding the file the loop is at would exceed the file-count cap or the
\* token cap of the batch being built
OverACap ==
  \/ Len(currentBatch) + 1 > maxBatchSize
  \/ currentTokenCount + EstimateOfFile > maxTokensPerBatch

\* C25: every batch returned by createBatches is non-empty, holds at most
\* maxBatchSize files and has the sum of the estimates of its files as
\* totalEstimatedTokens; inside the loop a batch is closed and a new one
\* started exactly when adding the next file would exceed the file-count
\* cap or the token cap and the current batch holds a file; the batch in
\* progress at the end of the loop is returned as the last batch
C25_BatchShape ==
  /\ [](\A b \in 1..Len(batches) :
          /\ Len(batches[b].files) >= 1
          /\ Len(batches[b].files) <= maxBatchSize
          /\ batches[b].totalEstimatedTokens = SumTokens(batches[b].files))
  /\ [][ (InLoop /\ HasBatchablePath(batchFiles[fileNo])) =>
           /\ (Len(batches') > Len(batches))
                <=> (OverACap /\ Len(currentBatch) > 0)
           /\ Len(batches') > Len(batches) =>
                /\ batches' = Append(batches, batches'[Len(batches')])
                /\ batches'[Len(batches')].files = currentBatch
                /\ Len(currentBatch') = 1 ]_vars
  /\ []((BatchesReturned /\ currentBatch # <<>>) =>
          batches[Len(batches)].files = currentBatch)

\* createBatches returned a batch closed at the file-count cap, a batch
\* closed at the token cap and the batch in progress at the end
C25_Witness ==
  /\ BatchesReturned
  /\ Len(batches) = 3
  /\ maxBatchSize = 2
  /\ Len(batches[1].files) = 2
  /\ Len(batches[2].files) = 1
  /\ batches[2].totalEstimatedTokens
       + batches[3].files[1].estimatedTokens > maxTokensPerBatch
  /\ batches[3].files = currentBatch

(***************************************************************************)
(* Properties of the single-file path                                      *)
(***************************************************************************)
\* the hunks of a file that have lines, in order
NonEmptyHunks(file) == SelectSeq(file.hunks, LAMBDA h : h.lines # <<>>)

\* the file has a path to review and a hunk with lines
Reviewable(file) ==
  /\ file.path \notin {"", "/dev/null"}
  /\ NonEmptyHunks(file) # <<>>

\* the runs of processFilesIndividually of a finished analysis: 0 is the
\* run of individual mode, b the fallback run of batch b
SingleFileRuns ==
  IF batchPc = "returned"
    THEN {b \in 1..Len(batches) : BatchFailed(b)}
    ELSE {0}

\* the places in the input of the files handed to a run
FilesOfRun(b) ==
  IF b = 0 THEN 1..Len(analysisFiles)
  ELSE {batches[b].files[k].index : k \in 1..Len(batches[b].files)}

\* the places in trace of the reviewSingle calls sent for file f in run b
SinglesSent(b, f) ==
  {i \in DOMAIN trace :
     trace[i].kind = "file" /\ trace[i].batch = b /\ trace[i].file = f}

\* the comments in the output that come from the call at place i of trace
CommentsOfCall(i) == SelectSeq(allComments, LAMBDA c : c.call = i)

\* the comments of the reviewSingle call sent at place i of trace are those
\* of its suggestions that name a line of a hunk with lines, each anchored
\* in one of the hunks of the prompt at a line with the suggested text
ResolvedOverAllHunks(i, file) ==
  LET hunks == NonEmptyHunks(file)
      settled == trace[i + 1]
      cs == CommentsOfCall(i)
      named == SelectSeq(settled.reviews,
                         LAMBDA r : /\ PlusAfterTrim(r.lineContent)
                                    /\ MatchingHunks(hunks, r.lineContent) # {})
  IN /\ settled.kind = "single"
     /\ Len(cs) = Len(named)
     /\ \A k \in 1..Len(cs) :
          /\ cs[k].path = file.path
          /\ cs[k].body = named[k].reviewComment
          /\ cs[k].hunk = Least(MatchingHunks(hunks, named[k].lineContent))
          /\ cs[k].position =
               Least(MatchingLines(hunks[cs[k].hunk], named[k].lineContent))

\* C26: in processFilesIndividually every file with a non-empty path other
\* than /dev/null and a non-empty hunk causes exactly one request, whose
\* prompt holds all its non-empty hunks and whose suggestions are resolved
\* over all those hunks; a file with an empty or /dev/null path or without
\* a non-empty hunk causes no call and no comment; an error while a file is
\* processed does not stop the files after it, and the run ends
C26_OneRequestPerFile ==
  /\ <>(analysisPc = "done")
  /\ [](analysisPc = "done" =>
          \A b \in SingleFileRuns : \A f \in FilesOfRun(b) :
            IF Reviewable(analysisFiles[f])
              THEN /\ Cardinality(SinglesSent(b, f)) = 1
                   /\ \A i \in SinglesSent(b, f) :
                        /\ trace[i].hunks = Len(NonEmptyHunks(analysisFiles[f]))
                        /\ ResolvedOverAllHunks(i, analysisFiles[f])
              ELSE /\ SinglesSent(b, f) = {}
                   /\ \A k \in DOMAIN allComments : allComments[k].file # f)

\* individual mode has ended: the call for a file with two hunks failed, the
\* file after it was still sent, and its suggestion for its hunk gave a
\* comment; another run skipped files without path or non-empty hunk
C26_Witness ==
  /\ analysisPc = "done"
  /\ batchPc = "idle"
  /\ Len(analysisFiles) = 2
  /\ \E i \in SinglesSent(0, 1) :
       trace[i].hunks = 2 /\ trace[i + 1].outcome = "throw"
  /\ \E i \in SinglesSent(0, 2) : Len(CommentsOfCall(i)) = 1

(***************************************************************************)
(* Properties of the batch call and its resolver                           *)
(***************************************************************************)
\* the suggestion is rejected by the batch resolver for batch b: its line
\* does not start with "+" after trimming, or no hunk of a file of the
\* batch holds it
RejectedInBatch(r, b) ==
  \/ ~PlusAfterTrim(r.lineContent)
  \/ \A k \in 1..Len(batches[b].files) :
       MatchingHunks(batches[b].files[k].originalHunks, r.lineContent) = {}

\* the reviewBatch call settled at place i of trace returned at least one
\* suggestion and the resolver rejected all of them
AllRejected(i) ==
  /\ trace[i].kind = "batch"
  /\ trace[i].reviews # <<>>
  /\ \A k \in 1..Len(trace[i].reviews) :
       RejectedInBatch(trace[i].reviews[k], trace[i].batch)

\* C27: the fallback is triggered by an empty response, not by an empty
\* result: a batch whose reviewBatch call returns at least one suggestion,
\* all of them rejected by the resolver, contributes no comment, and no file
\* of it is run through the single-file path
C27_NoFallbackOnRejectedSuggestions ==
  \A i \in DOMAIN trace :
    AllRejected(i) =>
      /\ CommentsOfCall(i) = <<>>
      /\ \A k \in 1..Len(batches[trace[i].batch].files) :
           FileRuns(trace[i].batch, batches[trace[i].batch].files[k].index) = {}
      /\ \A j \in DOMAIN trace :
           (j > i /\ trace[j].kind \in {"file", "skip", "single"})
             => trace[j].batch # trace[i].batch

\* the run ended; the first of its two batches got a suggestion quoting a
\* deleted line and a suggestion for a line that is nowhere, and gave no
\* comment; the second batch gave one
C27_Witness ==
  /\ analysisPc = "done"
  /\ Len(batches) = 2
  /\ \E i \in BatchEvents(1) : AllRejected(i) /\ Len(trace[i].reviews) = 2
  /\ \E i \in BatchEvents(2) : CommentsOfCall(i) # <<>>

\* the places of the files of a batch with a hunk that holds a matching line
MatchingFiles(batch, lineContent) ==
  {f \in 1..Len(batch) : MatchingHunks(batch[f].originalHunks, lineContent) # {}}

\* the suggestions of the call that start with "+" after trimming and have
\* a matching line in a file of the batch, in the order of the call
AnchoredInBatch(batch) ==
  SelectSeq(aiResponses,
            LAMBDA r : /\ PlusAfterTrim(r.lineContent)
                       /\ MatchingFiles(batch, r.lineContent) # {})

\* C28: the batch resolver attaches a suggestion to the first file, in
\* batch order, with a hunk that holds a line equal to the candidate after
\* normalization, in the first such hunk of that file, at the hunk-local
\* 1-based index of the first such line; when two files of the batch hold
\* the line the comment goes to the earlier file
C28_BatchFirstMatch ==
  rForm = "batch" =>
    LET anchored == AnchoredInBatch(rBatch)
    IN /\ Len(comments) = Len(anchored)
       /\ \A i \in 1..Len(comments) :
            LET line == anchored[i].lineContent
                file == Least(MatchingFiles(rBatch, line))
                hunk == Least(MatchingHunks(rBatch[file].originalHunks, line))
            IN /\ comments[i].path = rBatch[file].path
               /\ comments[i].file = file
               /\ comments[i].hunk = hunk
               /\ comments[i].position =
                    Least(MatchingLines(rBatch[file].originalHunks[hunk], line))

\* both files of the batch hold the line that two suggestions quote, and
\* both comments went to the first file
C28_Witness ==
  /\ rForm = "batch"
  /\ aiResponses = SuggestTwice
  /\ MatchingFiles(rBatch, <<"+", "a">>) = {1, 2}
  /\ Len(comments) = 2
  /\ \A i \in 1..2 : comments[i].path = "f1" /\ comments[i].position = 1

(***************************************************************************)
(* Properties of the tier state: what may change it                         *)
(***************************************************************************)
\* the tier state of the service
TierState == <<currentModelName, rateLimitDelay>>

\* the current model has a lower tier: it is in the ordering and not its last
HasLowerTier ==
  \E i \in 1..(Len(modelHierarchy) - 1) : modelHierarchy[i] = currentModelName

\* the step in which the first call of a request is rejected with status 429
FirstAttempt429 ==
  /\ pc = "inflight"
  /\ retryCount = 0
  /\ response' = NoResponse
  /\ lastStatus' = 429

\* the models used by the calls of the current request
ModelsOfRequest == {CallsOfRequest[i].model : i \in 1..Len(CallsOfRequest)}

\* C29: the current model and the inter-request interval change only in the
\* step where the first attempt of a request fails with 429 and the current
\* model has a lower tier; every other step (a start, a gate, a success, a
\* non-429 failure, a 429 on a later attempt) leaves both unchanged. A
\* first-attempt 429 on the last model of the ordering, or on a model outside
\* the tier table, leaves both unchanged and continues the request with a
\* backoff wait of 1000 ms. A request uses at most two models, so at most one
\* downgrade happens in it.
C29_TierStateFrame ==
  /\ [][ TierState' # TierState => FirstAttempt429 /\ HasLowerTier ]_vars
  /\ [][ FirstAttempt429 /\ ~HasLowerTier
           => /\ TierState' = TierState
              /\ pc' = "gate"
              /\ retryCount' = 1
              /\ backoffs' = <<1000>>
              /\ now' - now \in {1000 + d : d \in CallLatencies} ]_vars
  /\ [](Cardinality(ModelsOfRequest) <= 2)

\* the second request was rate limited on its first attempt with the last
\* model of the ordering, which the first request had downgraded to: it waits
\* 1000 ms and keeps the model
C29_Witness ==
  /\ reqNo = 2
  /\ pc = "gate"
  /\ retryCount = 1
  /\ lastStatus = 429
  /\ backoffs = <<1000>>
  /\ currentModelName = modelHierarchy[Len(modelHierarchy)]
  /\ calls[1].model # currentModelName
  /\ ModelsOfRequest = {currentModelName}

(***************************************************************************)
(* Properties of the resolvers: one suggestion, one comment                 *)
(***************************************************************************)
\* the files and hunks a resolver form searches: the first hunk of the first
\* file, the hunks of the first file, or every file of the batch
ScopeOf(form) ==
  IF form = "single"
    THEN << [path |-> rBatch[1].path,
             originalHunks |-> <<rBatch[1].originalHunks[1]>>] >>
    ELSE IF form = "multi" THEN <<rBatch[1]>> ELSE rBatch

\* the places (file, hunk, line) of a scope that hold a line equal to the
\* candidate after normalization
Occurrences(scope, lineContent) ==
  {p \in UNION {UNION {{<<f, h, k>> : k \in 1..Len(scope[f].originalHunks[h].lines)} :
                         h \in 1..Len(scope[f].originalHunks)} :
                  f \in 1..Len(scope)} :
     p[3] \in MatchingLines(scope[p[1]].originalHunks[p[2]], lineContent)}

\* the suggestions of the call that start with "+" after trimming and whose
\* line occurs at least once in the scope, in the order of the call
Located(scope) ==
  SelectSeq(aiResponses,
            LAMBDA r : /\ PlusAfterTrim(r.lineContent)
                       /\ Occurrences(scope, r.lineContent) # {})

\* C30: in each resolver form the comments are at most as many as the
\* suggestions passed in; there is exactly one comment for every suggestion
\* that starts with "+" after trimming and whose line occurs in the searched
\* hunks, however many times it occurs there (in one hunk, in several hunks
\* or in several files), and none for the others; the body of each comment is
\* the reviewComment of its suggestion, in the order of the suggestions
C30_OneCommentPerSuggestion ==
  rForm # "none" =>
    LET located == Located(ScopeOf(rForm))
    IN /\ Len(comments) <= Len(aiResponses)
       /\ Len(comments) = Len(located)
       /\ \A i \in 1..Len(comments) : comments[i].body = located[i].reviewComment

\* two suggestions quote a line that occurs twice in the hunk: two
\* comments, one for each suggestion, with their bodies
C30_Witness ==
  /\ rForm = "single"
  /\ aiResponses = SuggestTwice
  /\ Cardinality(Occurrences(ScopeOf("single"), <<"+", "a">>)) = 2
  /\ Len(comments) = 2
  /\ comments[1].body = "c"
  /\ comments[2].body = "d"

====
